---------------------------- MODULE Spec2Model ----------------------------
(***************************************************************************)
(* A model of the API access layer of bitbucket-server-cli: the three     *)
(* list drains (repository listPaged, comment List, tag List), the         *)
(* comment service (Create, Get, Update, Delete with version resolution)   *)
(* and the retrying executor of the HTTP client (GetJSON, Health).         *)
(*                                                                         *)
(* One behaviour is one service call: Invoke* picks the operation and its  *)
(* arguments, then every step performs one request, receives the server's  *)
(* answer (drawn from a bounded set) and runs the code up to the next      *)
(* request or the return.                                                  *)
(***************************************************************************)
EXTENDS Integers, Sequences, FiniteSets, TLC

VARIABLES
    pc,          \* "idle" | "list" | "read" | "write" | "get" | "create" | "attempt" | "done"
    op,          \* the operation called ("none" before the call)
    call,        \* the arguments of the call
    reqs,        \* the requests sent so far, in order
    resps,       \* the answers received so far, in order (resps[i] answers reqs[i])
    results,     \* the drain's accumulated results
    start,       \* the drain's cursor
    resolved,    \* comment Update/Delete: resolvedVersion
    err,         \* the kind of the returned error, "none" for nil
    attempt,     \* executor: the loop counter
    slept,       \* executor: the backoff waits taken, in units of 250 ms
    env,         \* the process environment LoadFromEnv ran in
    stored,      \* the stored configuration document LoadFromEnv read
    keyring,     \* the secure store: what keyring.Get answers for each key
    config,      \* the AppConfig LoadFromEnv returned
    exit,        \* the exit code of the process, once it has exited
    procs,       \* auth login / auth logout: where each CLI invocation stands
    server       \* the comment on the server, as the other writers left it

vars == <<pc, op, call, reqs, resps, results, start, resolved, err, attempt, slept,
          env, stored, keyring, config, exit, procs, server>>

----------------------------------------------------------------------------
(* Bounds of the model *)

\* the longest run of requests one call is followed for
MaxRequests == 3
\* comment versions range over 0..MaxVersion
MaxVersion == 2
\* a diff names at most this many files
MaxFiles == 3

(* Program constants *)

\* listPaged / List: limit = 25 when the caller gives none
DefaultLimit == 25
\* NewFromConfig: retries: 2
Retries == 2

----------------------------------------------------------------------------
(* Values *)

\* An optional value: <<>> is absent (a nil pointer, a missing JSON field),
\* <<v>> is present.
None == <<>>
Some(v) == <<v>>

\* Strings are sequences of characters; " " is white space.
Strs == {<<>>, <<" ">>, <<"a">>, <<"a", " ">>}

RECURSIVE TrimLeft(_)
TrimLeft(s) == IF s # <<>> /\ Head(s) = " " THEN TrimLeft(Tail(s)) ELSE s

RECURSIVE TrimRight(_)
TrimRight(s) ==
    IF s # <<>> /\ s[Len(s)] = " " THEN TrimRight(SubSeq(s, 1, Len(s) - 1)) ELSE s

\* strings.TrimSpace
TrimSpace(s) == TrimRight(TrimLeft(s))

\* the status codes the server answers with
Statuses == {200, 204, 400, 401, 403, 404, 409, 418, 429, 500, 503}

\* page contents: items are numbers, so order and repetition show
ValueLists == {<<>>, <<1>>, <<2, 1>>}

\* the cursors the server hands out
NextStarts == {2}

\* the paged envelope as the server sends it: every field may be missing
Envelopes ==
    [values : {None} \cup {Some(v) : v \in ValueLists},
     isLastPage : {"absent", "true", "false"},
     nextPageStart : {None} \cup {Some(n) : n \in NextStarts}]

\* a comment as the server sends it
Comments == [version : {None} \cup {Some(v) : v \in 0..MaxVersion}]

\* An answer to one request: terr is "do" when the round trip failed, "read"
\* when reading the body failed; payload is the decoded body, if any.
Answer(t, s, p) == [terr |-> t, status |-> s, payload |-> p]

\* answers of the generated client to a list request: the typed payload is
\* only ever set on a 200
PageAnswers ==
    {Answer("do", 0, None)}
        \cup {Answer("none", s, None) : s \in Statuses}
        \cup {Answer("none", 200, Some(e)) : e \in Envelopes}

\* answers of the generated client to a request for one comment
CommentAnswers ==
    {Answer("do", 0, None)}
        \cup {Answer("none", s, None) : s \in Statuses}
        \cup {Answer("none", 200, Some(c)) : c \in Comments}

\* answers to a write (PUT, DELETE, POST): the body is not looked at for the
\* version
WriteAnswers ==
    {Answer("do", 0, None)} \cup {Answer("none", s, None) : s \in Statuses}

\* what one GetJSON call ends on: a failed round trip, a failed body read, a
\* status with an undecodable (None) or decodable body
GetJSONAnswers ==
    {Answer("do", 0, None), Answer("read", 200, None), Answer("read", 503, None)}
        \cup {Answer("none", s, None) : s \in Statuses}
        \cup {Answer("none", 200, Some(e)) : e \in Envelopes}

NoTarget == [projectKey |-> <<>>, slug |-> <<>>, commitID |-> <<>>, pullRequestID |-> <<>>]

NoCall ==
    [target |-> NoTarget, id |-> <<>>, text |-> <<>>, path |-> <<>>,
     version |-> None, limit |-> 0]

Request(m, s, l, v) == [method |-> m, start |-> s, limit |-> l, version |-> v]

----------------------------------------------------------------------------
(* Status classification *)

\* mapStatusErrorComment without its case for 409
mapStatusErrorComment_no409(status) ==
    IF status >= 200 /\ status < 300 THEN "none"
    ELSE CASE status = 400 -> "validation"
           [] status = 401 -> "authentication"
           [] status = 403 -> "authorization"
           [] status = 404 -> "not_found"
           [] status = 429 -> "transient"
           [] OTHER -> IF status >= 500 THEN "transient" ELSE "permanent"

\* comment/service.go mapStatusError: "none" is nil
mapStatusErrorComment(status) ==
    IF status >= 200 /\ status < 300 THEN "none"
    ELSE CASE status = 400 -> "validation"
           [] status = 401 -> "authentication"
           [] status = 403 -> "authorization"
           [] status = 404 -> "not_found"
           [] status = 409 -> "conflict"
           [] status = 429 -> "transient"
           [] OTHER -> IF status >= 500 THEN "transient" ELSE "permanent"

\* mapStatusErrorTag with every status from 500 up taken for permanent
mapStatusErrorTag_5xxPermanent(status) ==
    IF status >= 200 /\ status < 300 THEN "none"
    ELSE CASE status = 400 -> "validation"
           [] status = 401 -> "authentication"
           [] status = 403 -> "authorization"
           [] status = 404 -> "not_found"
           [] status = 409 -> "conflict"
           [] status = 429 -> "transient"
           [] OTHER -> "permanent"

\* tag/service.go mapStatusError
mapStatusErrorTag(status) ==
    IF status >= 200 /\ status < 300 THEN "none"
    ELSE CASE status = 400 -> "validation"
           [] status = 401 -> "authentication"
           [] status = 403 -> "authorization"
           [] status = 404 -> "not_found"
           [] status = 409 -> "conflict"
           [] status = 429 -> "transient"
           [] OTHER -> IF status >= 500 THEN "transient" ELSE "permanent"

\* diff service mapStatusError
mapStatusErrorDiff(status) ==
    IF status >= 200 /\ status < 300 THEN "none"
    ELSE CASE status = 400 -> "validation"
           [] status = 401 -> "authentication"
           [] status = 403 -> "authorization"
           [] status = 404 -> "not_found"
           [] status = 409 -> "conflict"
           [] status = 429 -> "transient"
           [] OTHER -> IF status >= 500 THEN "transient" ELSE "permanent"

\* reposettings service mapStatusError
mapStatusErrorRepoSettings(status) ==
    IF status >= 200 /\ status < 300 THEN "none"
    ELSE CASE status = 400 -> "validation"
           [] status = 401 -> "authentication"
           [] status = 403 -> "authorization"
           [] status = 404 -> "not_found"
           [] status = 409 -> "conflict"
           [] status = 429 -> "transient"
           [] OTHER -> IF status >= 500 THEN "transient" ELSE "permanent"

\* quality service mapStatusError
mapStatusErrorQuality(status) ==
    IF status >= 200 /\ status < 300 THEN "none"
    ELSE CASE status = 400 -> "validation"
           [] status = 401 -> "authentication"
           [] status = 403 -> "authorization"
           [] status = 404 -> "not_found"
           [] status = 409 -> "conflict"
           [] status = 429 -> "transient"
           [] OTHER -> IF status >= 500 THEN "transient" ELSE "permanent"

\* cli mapStatusErrorFromBody (pr list, issue list)
mapStatusErrorFromBody(status) ==
    IF status >= 200 /\ status < 300 THEN "none"
    ELSE CASE status = 400 -> "validation"
           [] status = 401 -> "authentication"
           [] status = 403 -> "authorization"
           [] status = 404 -> "not_found"
           [] status = 409 -> "conflict"
           [] status = 429 -> "transient"
           [] OTHER -> IF status >= 500 THEN "transient" ELSE "permanent"

\* httpclient mapStatusError: never nil, it is only called on a non-2xx
mapStatusErrorHTTP(status) ==
    CASE status = 401 -> "authentication"
      [] status = 403 -> "authorization"
      [] status = 404 -> "not_found"
      [] status = 409 -> "conflict"
      [] status = 400 -> "validation"
      [] status = 429 -> "transient"
      [] OTHER -> IF status >= 500 THEN "transient" ELSE "permanent"

----------------------------------------------------------------------------
(* The drains *)

Pow2(n) == 2 ^ n

RECURSIVE Log2Floor(_)
Log2Floor(n) == IF n < 2 THEN 0 ELSE 1 + Log2Floor(n \div 2)

\* float32(n) for an int n >= 0: exact up to 2^24, beyond that rounded to the
\* nearest multiple of the unit in the last place, ties to even
Float32(n) ==
    IF n < Pow2(24) THEN n
    ELSE LET ulp == Pow2(Log2Floor(n) - 23)
             lo == (n \div ulp) * ulp
             rest == n - lo
         IN  IF 2 * rest < ulp THEN lo
             ELSE IF 2 * rest > ulp THEN lo + ulp
             ELSE IF (lo \div ulp) % 2 = 0 THEN lo ELSE lo + ulp

\* if limit <= 0 { limit = 25 }
effectiveLimit(limit) == IF limit <= 0 THEN DefaultLimit ELSE limit

\* json.Unmarshal into pagedRepoResponse: a missing field keeps its zero value
decodeRepoPage(e) ==
    [Values |-> IF e.values = None THEN <<>> ELSE e.values[1],
     IsLastPage |-> (e.isLastPage = "true"),
     NextPageStart |-> IF e.nextPageStart = None THEN 0 ELSE e.nextPageStart[1]]

\* the error GetJSON returns when its last attempt ended on answer a
GetJSONError(a) ==
    IF a.terr # "none" THEN "transient"
    ELSE IF a.status >= 200 /\ a.status < 300
         THEN IF a.payload = None THEN "permanent" ELSE "none"
         ELSE mapStatusErrorHTTP(a.status)

DrainState(p, s, r, e) == [pc |-> p, start |-> s, results |-> r, err |-> e]

\* listPagedStep leaving the loop on the last page before appending it
listPagedStep_breaksFirst(st, a) ==
    IF GetJSONError(a) # "none"
    THEN DrainState("done", st.start, <<>>, GetJSONError(a))
    ELSE LET page == decodeRepoPage(a.payload[1])
             res == st.results \o page.Values
         IN  IF page.IsLastPage
             THEN DrainState("done", st.start, st.results, "none")
             ELSE DrainState("list", page.NextPageStart, res, "none")

\* one iteration of listPaged's loop, the GetJSON call having ended on a
listPagedStep(st, a) ==
    IF GetJSONError(a) # "none"
    THEN DrainState("done", st.start, <<>>, GetJSONError(a))
    ELSE LET page == decodeRepoPage(a.payload[1])
             res == st.results \o page.Values
         IN  IF page.IsLastPage
             THEN DrainState("done", st.start, res, "none")
             ELSE DrainState("list", page.NextPageStart, res, "none")

\* one iteration of comment List's loop (the commit and the pull request
\* branch are the same code on two endpoints)
commentListStep(st, a) ==
    IF a.terr # "none" THEN DrainState("done", st.start, <<>>, "transient")
    ELSE IF mapStatusErrorComment(a.status) # "none"
    THEN DrainState("done", st.start, <<>>, mapStatusErrorComment(a.status))
    ELSE IF a.payload = None \/ a.payload[1].values = None
    THEN DrainState("done", st.start, st.results, "none")
    ELSE LET e == a.payload[1]
             res == st.results \o e.values[1]
         IN  IF e.isLastPage = "true" THEN DrainState("done", st.start, res, "none")
             ELSE IF e.nextPageStart = None
             THEN DrainState("done", st.start, res, "none")
             ELSE DrainState("list", Float32(e.nextPageStart[1]), res, "none")

\* one iteration of tag List's loop
tagListStep(st, a) ==
    IF a.terr # "none" THEN DrainState("done", st.start, <<>>, "transient")
    ELSE IF mapStatusErrorTag(a.status) # "none"
    THEN DrainState("done", st.start, <<>>, mapStatusErrorTag(a.status))
    ELSE IF a.payload = None \/ a.payload[1].values = None
    THEN DrainState("done", st.start, st.results, "none")
    ELSE LET e == a.payload[1]
             res == st.results \o e.values[1]
         IN  IF e.isLastPage = "true" THEN DrainState("done", st.start, res, "none")
             ELSE IF e.nextPageStart = None
             THEN DrainState("done", st.start, res, "none")
             ELSE DrainState("list", Float32(e.nextPageStart[1]), res, "none")

\* tag validateRepositoryRef
validateRepositoryRef(repo) ==
    IF TrimSpace(repo.projectKey) = <<>> \/ TrimSpace(repo.slug) = <<>>
    THEN "validation" ELSE "none"

\* validateTarget refusing only a target with both ids
validateTarget_bothOnly(target) ==
    IF TrimSpace(target.projectKey) = <<>> \/ TrimSpace(target.slug) = <<>>
    THEN "validation"
    ELSE LET hasCommit == TrimSpace(target.commitID) # <<>>
             hasPullRequest == TrimSpace(target.pullRequestID) # <<>>
         IN  IF hasCommit /\ hasPullRequest THEN "validation" ELSE "none"

\* comment validateTarget
validateTarget(target) ==
    IF TrimSpace(target.projectKey) = <<>> \/ TrimSpace(target.slug) = <<>>
    THEN "validation"
    ELSE LET hasCommit == TrimSpace(target.commitID) # <<>>
             hasPullRequest == TrimSpace(target.pullRequestID) # <<>>
         IN  IF hasCommit = hasPullRequest THEN "validation" ELSE "none"

Limits == {0, 2}

Targets == [projectKey : Strs, slug : Strs, commitID : Strs, pullRequestID : Strs]

Repos == {t \in Targets : t.commitID = <<>> /\ t.pullRequestID = <<>>}

\* the call returns before its first request
Reject(o, c, e) ==
    /\ op' = o
    /\ call' = c
    /\ pc' = "done"
    /\ err' = e
    /\ UNCHANGED <<procs, server, env, stored, keyring, config, exit, reqs, resps, results, start, resolved, attempt, slept>>

\* the call passed its checks and goes on to its first request at p, its
\* resolvedVersion being r
EnterWith(o, c, p, r) ==
    /\ op' = o
    /\ call' = c
    /\ pc' = p
    /\ resolved' = r
    /\ UNCHANGED <<procs, server, env, stored, keyring, config, exit, reqs, resps, results, start, err, attempt, slept>>

Enter(o, c, p) == EnterWith(o, c, p, None)

\* repository Service.List
InvokeRepoList ==
    /\ pc = "idle"
    /\ \E limit \in Limits :
           Enter("RepoList", [NoCall EXCEPT !.limit = effectiveLimit(limit)], "list")

\* repository Service.ListByProject: the empty key is refused with a plain
\* fmt.Errorf, which carries no kind
InvokeRepoListByProject ==
    /\ pc = "idle"
    /\ \E projectKey \in Strs, limit \in Limits :
           LET c == [NoCall EXCEPT !.target.projectKey = projectKey,
                                   !.limit = effectiveLimit(limit)]
           IN  IF projectKey = <<>>
               THEN Reject("RepoListByProject", c, "unclassified")
               ELSE Enter("RepoListByProject", c, "list")

\* tag Service.List up to its loop
InvokeTagList ==
    /\ pc = "idle"
    /\ \E repo \in Repos, limit \in Limits :
           LET c == [NoCall EXCEPT !.target = repo, !.limit = effectiveLimit(limit)]
           IN  IF validateRepositoryRef(repo) # "none"
               THEN Reject("TagList", c, validateRepositoryRef(repo))
               ELSE Enter("TagList", c, "list")

\* comment Service.List up to its loop
InvokeCommentList ==
    /\ pc = "idle"
    /\ \E target \in Targets, path \in Strs, limit \in Limits :
           LET c == [NoCall EXCEPT !.target = target, !.path = path,
                                   !.limit = effectiveLimit(limit)]
           IN  IF validateTarget(target) # "none"
               THEN Reject("CommentList", c, validateTarget(target))
               ELSE IF TrimSpace(path) = <<>>
               THEN Reject("CommentList", c, "validation")
               ELSE Enter("CommentList", c, "list")

\* where a drain's loop stands
Cursor == [start |-> start, results |-> results]

\* a drain's loop body: the page at start was requested with the limit, a was
\* the answer and st is the step taken on it
Fetch(a, st, limit) ==
    /\ reqs' = Append(reqs, Request("GET", start, limit, None))
    /\ resps' = Append(resps, a)
    /\ pc' = st.pc
    /\ start' = st.start
    /\ results' = st.results
    /\ err' = st.err
    /\ UNCHANGED <<procs, server, env, stored, keyring, config, exit, op, call, resolved, attempt, slept>>

RepoListFetch ==
    /\ pc = "list"
    /\ op \in {"RepoList", "RepoListByProject"}
    /\ Len(reqs) < MaxRequests
    /\ \E a \in GetJSONAnswers : Fetch(a, listPagedStep(Cursor, a), call.limit)

CommentListFetch ==
    /\ pc = "list"
    /\ op = "CommentList"
    /\ Len(reqs) < MaxRequests
    /\ \E a \in PageAnswers : Fetch(a, commentListStep(Cursor, a), Float32(call.limit))

TagListFetch ==
    /\ pc = "list"
    /\ op = "TagList"
    /\ Len(reqs) < MaxRequests
    /\ \E a \in PageAnswers : Fetch(a, tagListStep(Cursor, a), Float32(call.limit))

----------------------------------------------------------------------------
(* The comment service *)

DigitChars == <<"0", "1", "2", "3", "4", "5", "6", "7", "8", "9">>

\* strconv.Itoa of a non-negative int
RECURSIVE Itoa(_)
Itoa(n) ==
    IF n < 10 THEN <<DigitChars[n + 1]>>
    ELSE Itoa(n \div 10) \o <<DigitChars[(n % 10) + 1]>>

\* what a request returns that only looks at the status: the round trip's
\* failure is transient, a status is mapped
statusResult(a) ==
    IF a.terr # "none" THEN "transient" ELSE mapStatusErrorComment(a.status)

\* comment Service.Get: sent says whether the request went out; version is
\* the Version field of the comment returned (the zero RestComment has none)
serviceGet(target, commentID, a) ==
    IF validateTarget(target) # "none"
    THEN [sent |-> FALSE, err |-> validateTarget(target), version |-> None]
    ELSE IF TrimSpace(commentID) = <<>>
    THEN [sent |-> FALSE, err |-> "validation", version |-> None]
    ELSE IF statusResult(a) # "none"
    THEN [sent |-> TRUE, err |-> statusResult(a), version |-> None]
    ELSE IF a.payload # None
    THEN [sent |-> TRUE, err |-> "none", version |-> a.payload[1].version]
    ELSE [sent |-> TRUE, err |-> "none", version |-> None]

\* needsRead reading whether or not a version was given
needsRead_always(version) == TRUE

\* Update, Delete: if resolvedVersion == nil, read first
needsRead(version) == version = None

\* afterRead going on to the write whatever the read returned
afterRead_ignoresError(g) ==
    [pc |-> "write", err |-> "none", resolved |-> g.version]

\* afterRead returning the read's error as an internal one
afterRead_wrapsError(g) ==
    IF g.err # "none"
    THEN [pc |-> "done", err |-> "internal", resolved |-> None]
    ELSE [pc |-> "write", err |-> "none", resolved |-> g.version]

\* Update, Delete: after the read g, return its error or go on with the
\* version it gave
afterRead(g) ==
    IF g.err # "none"
    THEN [pc |-> "done", err |-> g.err, resolved |-> None]
    ELSE [pc |-> "write", err |-> "none", resolved |-> g.version]

\* versionParam leaving the parameter out
versionParam_dropped(resolvedVersion) == None

\* Delete: the version query parameter
versionParam(resolvedVersion) ==
    IF resolvedVersion # None THEN Some(Itoa(resolvedVersion[1])) ELSE None

\* bodyVersion with the client counting the version up itself
bodyVersion_incremented(resolvedVersion) ==
    IF resolvedVersion # None THEN Some(resolvedVersion[1] + 1) ELSE None

\* Update: the Version field of the request body
bodyVersion(resolvedVersion) == resolvedVersion

Versions == {None} \cup {Some(v) : v \in 0..MaxVersion}

\* comment Service.Create up to its request
InvokeCommentCreate ==
    /\ pc = "idle"
    /\ \E target \in Targets, text \in Strs :
           LET c == [NoCall EXCEPT !.target = target, !.text = text]
           IN  IF validateTarget(target) # "none"
               THEN Reject("CommentCreate", c, validateTarget(target))
               ELSE IF TrimSpace(text) = <<>>
               THEN Reject("CommentCreate", c, "validation")
               ELSE Enter("CommentCreate", c, "create")

\* comment Service.Create: the POST and its answer
CommentCreateSend ==
    /\ pc = "create"
    /\ \E a \in WriteAnswers :
           /\ reqs' = Append(reqs, Request("POST", 0, 0, None))
           /\ resps' = Append(resps, a)
           /\ err' = statusResult(a)
           /\ pc' = "done"
    /\ UNCHANGED <<procs, server, env, stored, keyring, config, exit, op, call, results, start, resolved, attempt, slept>>

\* comment Service.Get called directly, up to its request
InvokeCommentGet ==
    /\ pc = "idle"
    /\ \E target \in Targets, id \in Strs :
           LET c == [NoCall EXCEPT !.target = target, !.id = id]
               g == serviceGet(target, id, Answer("none", 200, None))
           IN  IF ~g.sent
               THEN Reject("CommentGet", c, g.err)
               ELSE Enter("CommentGet", c, "get")

\* comment Service.Get: the GET and its answer
CommentGetSend ==
    /\ pc = "get"
    /\ \E a \in CommentAnswers :
           LET g == serviceGet(call.target, call.id, a)
           IN  /\ reqs' = Append(reqs, Request("GET", 0, 0, None))
               /\ resps' = Append(resps, a)
               /\ err' = g.err
               /\ resolved' = g.version
               /\ pc' = "done"
    /\ UNCHANGED <<procs, server, env, stored, keyring, config, exit, op, call, results, start, attempt, slept>>

\* comment Service.Update up to its first request
InvokeCommentUpdate ==
    /\ pc = "idle"
    /\ \E target \in Targets, id \in Strs, text \in Strs, version \in Versions :
           LET c == [NoCall EXCEPT !.target = target, !.id = id, !.text = text,
                                   !.version = version]
           IN  IF validateTarget(target) # "none"
               THEN Reject("CommentUpdate", c, validateTarget(target))
               ELSE IF TrimSpace(id) = <<>>
               THEN Reject("CommentUpdate", c, "validation")
               ELSE IF TrimSpace(text) = <<>>
               THEN Reject("CommentUpdate", c, "validation")
               ELSE IF needsRead(version)
               THEN EnterWith("CommentUpdate", c, "read", version)
               ELSE EnterWith("CommentUpdate", c, "write", version)

\* comment Service.Delete up to its first request
InvokeCommentDelete ==
    /\ pc = "idle"
    /\ \E target \in Targets, id \in Strs, version \in Versions :
           LET c == [NoCall EXCEPT !.target = target, !.id = id, !.version = version]
           IN  IF validateTarget(target) # "none"
               THEN Reject("CommentDelete", c, validateTarget(target))
               ELSE IF TrimSpace(id) = <<>>
               THEN Reject("CommentDelete", c, "validation")
               ELSE IF needsRead(version)
               THEN EnterWith("CommentDelete", c, "read", version)
               ELSE EnterWith("CommentDelete", c, "write", version)

\* Update, Delete: the precondition read, service.Get(ctx, target,
\* trimmedCommentID), and the branch on its result
CommentRead ==
    /\ pc = "read"
    /\ \E a \in CommentAnswers :
           LET g == serviceGet(call.target, TrimSpace(call.id), a)
               nxt == afterRead(g)
           IN  /\ reqs' = IF g.sent THEN Append(reqs, Request("GET", 0, 0, None)) ELSE reqs
               /\ resps' = IF g.sent THEN Append(resps, a) ELSE resps
               /\ pc' = nxt.pc
               /\ err' = nxt.err
               /\ resolved' = nxt.resolved
    /\ UNCHANGED <<procs, server, env, stored, keyring, config, exit, op, call, results, start, attempt, slept>>

\* Update: the PUT, its body carrying the resolved version, and its answer
CommentUpdateWrite ==
    /\ pc = "write"
    /\ op = "CommentUpdate"
    /\ \E a \in WriteAnswers :
           /\ reqs' = Append(reqs, Request("PUT", 0, 0, bodyVersion(resolved)))
           /\ resps' = Append(resps, a)
           /\ err' = statusResult(a)
           /\ pc' = "done"
    /\ UNCHANGED <<procs, server, env, stored, keyring, config, exit, op, call, results, start, resolved, attempt, slept>>

\* Delete: the DELETE, its query carrying the resolved version, and its
\* answer; on success the resolved version is returned
CommentDeleteWrite ==
    /\ pc = "write"
    /\ op = "CommentDelete"
    /\ \E a \in WriteAnswers :
           /\ reqs' = Append(reqs, Request("DELETE", 0, 0, versionParam(resolved)))
           /\ resps' = Append(resps, a)
           /\ err' = statusResult(a)
           /\ resolved' = IF statusResult(a) = "none" THEN resolved ELSE None
           /\ pc' = "done"
    /\ UNCHANGED <<procs, server, env, stored, keyring, config, exit, op, call, results, start, attempt, slept>>

----------------------------------------------------------------------------
(* The executor *)

\* the statuses an attempt can end on
ExecStatuses == Statuses \cup {302}

\* the decoded body of a 2xx, when it decodes
SomeBody == Some([values |-> None, isLastPage |-> "true", nextPageStart |-> None])

\* what one attempt can end on: "build" is NewRequestWithContext failing,
\* "do" is Do failing on the transport, "ctx" is Do returning the error of
\* the context the request was built with, once that context is cancelled
AttemptAnswers ==
    {Answer("build", 0, None), Answer("do", 0, None), Answer("ctx", 0, None),
     Answer("read", 200, None), Answer("read", 503, None),
     Answer("none", 200, SomeBody)}
        \cup {Answer("none", s, None) : s \in ExecStatuses}

ExecState(p, n, e, w) == [pc |-> p, attempt |-> n, err |-> e, slept |-> w]

\* the failure e of a retryable attempt: wait and go round again while
\* attempt < retries, return e after the last one
retryOrReturn(n, e) ==
    IF n < Retries
    THEN ExecState("attempt", n + 1, e, Some(n + 1))
    ELSE ExecState("done", n, e, None)

\* GetJSON's loop with every status from 400 up taken round again
getJSONStep_retries4xx(n, a) ==
    IF a.terr = "build" THEN ExecState("done", n, "internal", None)
    ELSE IF a.terr \in {"do", "ctx"} THEN retryOrReturn(n, "transient")
    ELSE IF a.terr = "read" THEN ExecState("done", n, "transient", None)
    ELSE IF a.status >= 200 /\ a.status < 300
    THEN ExecState("done", n, IF a.payload = None THEN "permanent" ELSE "none", None)
    ELSE IF a.status >= 400
    THEN retryOrReturn(n, mapStatusErrorHTTP(a.status))
    ELSE ExecState("done", n, mapStatusErrorHTTP(a.status), None)

\* one iteration of GetJSON's loop, ending on answer a; Do's error is not
\* told apart: the context's error is a failed request like any other
getJSONStep(n, a) ==
    IF a.terr = "build" THEN ExecState("done", n, "internal", None)
    ELSE IF a.terr \in {"do", "ctx"} THEN retryOrReturn(n, "transient")
    ELSE IF a.terr = "read" THEN ExecState("done", n, "transient", None)
    ELSE IF a.status >= 200 /\ a.status < 300
    THEN ExecState("done", n, IF a.payload = None THEN "permanent" ELSE "none", None)
    ELSE IF a.status = 429 \/ a.status >= 500
    THEN retryOrReturn(n, mapStatusErrorHTTP(a.status))
    ELSE ExecState("done", n, mapStatusErrorHTTP(a.status), None)

\* one iteration of Health's loop, ending on answer a (the body is
\* discarded, a failure to read it is not looked at)
healthStep(n, a) ==
    IF a.terr = "build" THEN ExecState("done", n, "internal", None)
    ELSE IF a.terr \in {"do", "ctx"} THEN retryOrReturn(n, "transient")
    ELSE IF a.status >= 200 /\ a.status < 300 THEN ExecState("done", n, "none", None)
    ELSE IF a.status = 401 \/ a.status = 403 \/ (a.status >= 300 /\ a.status < 400)
    THEN ExecState("done", n, "none", None)
    ELSE IF a.status >= 500 \/ a.status = 429
    THEN retryOrReturn(n, mapStatusErrorHTTP(a.status))
    ELSE ExecState("done", n, mapStatusErrorHTTP(a.status), None)

ExecOps == {"GetJSON", "Health"}

\* GetJSON, Health up to the loop: url.Parse may refuse the URL
InvokeExec ==
    /\ pc = "idle"
    /\ \E o \in ExecOps, urlOK \in BOOLEAN :
           IF urlOK THEN Enter(o, NoCall, "attempt") ELSE Reject(o, NoCall, "validation")

\* the loop body: one attempt, its answer a, and the step st taken on it
Attempt(a, st) ==
    /\ reqs' = IF a.terr = "build" THEN reqs ELSE Append(reqs, Request("GET", 0, 0, None))
    /\ resps' = Append(resps, a)
    /\ pc' = st.pc
    /\ attempt' = st.attempt
    /\ err' = st.err
    /\ slept' = slept \o st.slept
    /\ UNCHANGED <<procs, server, env, stored, keyring, config, exit, op, call, results, start, resolved>>

\* the context was cancelled during an earlier attempt of this call
Cancelled == \E i \in 1..Len(resps) : resps[i].terr = "ctx"

\* a cancelled context stays cancelled: every later Do returns its error
AnswersNow == IF Cancelled THEN {Answer("ctx", 0, None)} ELSE AttemptAnswers

GetJSONAttempt ==
    /\ pc = "attempt"
    /\ op = "GetJSON"
    /\ attempt <= Retries
    /\ \E a \in AnswersNow : Attempt(a, getJSONStep(attempt, a))

HealthAttempt ==
    /\ pc = "attempt"
    /\ op = "Health"
    /\ attempt <= Retries
    /\ \E a \in AnswersNow : Attempt(a, healthStep(attempt, a))

----------------------------------------------------------------------------
(* Error kinds and the exit code *)

\* the kinds of the errors package
Kinds ==
    {"authentication", "authorization", "validation", "not_found", "conflict",
     "transient", "permanent", "not_implemented", "internal"}

\* the errors a command can return: "none" is nil, "unclassified" an error
\* that holds no AppError
Errors == Kinds \cup {"none", "unclassified"}

\* ExitCode with the case for conflict missing
ExitCode_noConflict(e) ==
    IF e = "none" THEN 0
    ELSE IF e \in Kinds
    THEN CASE e = "validation" -> 2
           [] e \in {"authentication", "authorization"} -> 3
           [] e = "not_found" -> 4
           [] e = "transient" -> 10
           [] e = "not_implemented" -> 11
           [] OTHER -> 1
    ELSE 1

\* errors.ExitCode
ExitCode(e) ==
    IF e = "none" THEN 0
    ELSE IF e \in Kinds
    THEN CASE e = "validation" -> 2
           [] e \in {"authentication", "authorization"} -> 3
           [] e = "not_found" -> 4
           [] e = "conflict" -> 5
           [] e = "transient" -> 10
           [] e = "not_implemented" -> 11
           [] OTHER -> 1
    ELSE 1

\* main: the command has returned err; the process exits with ExitCode(err),
\* with 0 when there is none
Exit ==
    /\ pc = "done"
    /\ exit = None
    /\ exit' = Some(ExitCode(err))
    /\ UNCHANGED <<procs, server, pc, op, call, reqs, resps, results, start, resolved, err, attempt,
                   slept, env, stored, keyring, config>>

\* the status codes a response can carry
StatusCodes == 100..599

\* the classifiers of the code base, by the package each belongs to
Classifiers == {"comment", "tag", "diff", "reposettings", "quality", "cli", "httpclient"}

\* the classifier of package c on a status
classify(c, status) ==
    CASE c = "comment" -> mapStatusErrorComment(status)
      [] c = "tag" -> mapStatusErrorTag(status)
      [] c = "diff" -> mapStatusErrorDiff(status)
      [] c = "reposettings" -> mapStatusErrorRepoSettings(status)
      [] c = "quality" -> mapStatusErrorQuality(status)
      [] c = "cli" -> mapStatusErrorFromBody(status)
      [] c = "httpclient" -> mapStatusErrorHTTP(status)

\* the statuses a classifier is called on: the services classify every
\* response; GetJSON and Health return on a 2xx before they classify
ClassifierInputs(c) == IF c = "httpclient" THEN StatusCodes \ (200..299) ELSE StatusCodes

\* a response of status s is classified and the result returned
ClassifyStatus ==
    /\ pc = "idle"
    /\ \E c \in Classifiers :
           \E s \in ClassifierInputs(c) :
               /\ op' = "mapStatusError"
               /\ call' = [classifier |-> c]
               /\ resps' = <<Answer("none", s, None)>>
               /\ err' = classify(c, s)
    /\ pc' = "done"
    /\ UNCHANGED <<procs, server, reqs, results, start, resolved, attempt, slept, env, stored, keyring,
                   config, exit>>

\* pr list, issue list: not implemented
NotImplementedCommand ==
    /\ pc = "idle"
    /\ op' = "NotImplemented"
    /\ err' = "not_implemented"
    /\ pc' = "done"
    /\ UNCHANGED <<procs, server, call, reqs, resps, results, start, resolved, attempt, slept, env, stored,
                   keyring, config, exit>>

\* rootCmd.Execute returns an error of any kind, or one cobra made, or none
CommandReturns ==
    /\ pc = "idle"
    /\ \E e \in Errors :
           /\ op' = "Execute"
           /\ err' = e
    /\ pc' = "done"
    /\ UNCHANGED <<procs, server, call, reqs, resps, results, start, resolved, attempt, slept, env, stored,
                   keyring, config, exit>>

----------------------------------------------------------------------------
(* Configuration *)

\* A URL is a string of these parts: "http://" is a scheme with its
\* separator, "://" the separator without a scheme, the others are hosts;
\* a host in capitals is the same host written in capitals.
Lower(part) ==
    CASE part = "H1" -> "h1"
      [] part = "H2" -> "h2"
      [] OTHER -> part

HostParts == {"h1", "H1", "h2", "H2", "localhost:7990"}

\* defaultBitbucketURL, defaultProjectKey (a project key is a sequence of
\* characters)
DefaultURL == <<"http://", "localhost:7990">>
DefaultProjectKey == <<"T", "E", "S", "T">>

\* Validate: the longest project key accepted
MaxProjectKeyLen == 20

\* strings.Contains(value, "://")
HasSeparator(value) == \E i \in 1..Len(value) : value[i] \in {"http://", "://"}

\* normalizeURL of a trimmed value
withScheme(trimmed) ==
    IF trimmed = <<>> THEN trimmed
    ELSE IF HasSeparator(trimmed) THEN trimmed
    ELSE <<"http://">> \o trimmed

normalizeURL(value) == withScheme(TrimSpace(value))

\* url.Parse: "://x" has no scheme and is refused; a string without a
\* separator is a path
urlParse(value) ==
    IF value # <<>> /\ value[1] = "://"
    THEN [ok |-> FALSE, scheme |-> <<>>, host |-> <<>>]
    ELSE IF value # <<>> /\ value[1] = "http://"
    THEN [ok |-> TRUE, scheme |-> <<"http">>,
          host |-> IF Len(value) >= 2 /\ value[2] \in HostParts THEN <<value[2]>> ELSE <<>>]
    ELSE [ok |-> TRUE, scheme |-> <<>>, host |-> <<>>]

\* hostKey of a normalized URL parsed: scheme + "://" + host, in lower case
keyOf(normalized, parsed) ==
    IF ~parsed.ok THEN normalized
    ELSE (IF parsed.scheme = <<>> THEN <<"://">> ELSE <<"http://">>)
             \o [i \in 1..Len(parsed.host) |-> Lower(parsed.host[i])]

keyOfNormalized(normalized) == keyOf(normalized, urlParse(normalized))

hostKey(hostURL) == keyOfNormalized(normalizeURL(hostURL))

AppConfig(u, k, t, n, p, s) ==
    [url |-> u, projectKey |-> k, token |-> t, username |-> n, password |-> p,
     authSource |-> s]

\* AppConfig{}
NoConfig == AppConfig(<<>>, <<>>, <<>>, <<>>, <<>>, <<>>)

\* os.Getenv of a variable that is not set is ""
NoEnv ==
    [BITBUCKET_URL |-> <<>>, BITBUCKET_PROJECT_KEY |-> <<>>, BITBUCKET_TOKEN |-> <<>>,
     BITBUCKET_USERNAME |-> <<>>, BITBUCKET_USER |-> <<>>, ADMIN_USER |-> <<>>,
     BITBUCKET_PASSWORD |-> <<>>, ADMIN_PASSWORD |-> <<>>,
     BBSC_DISABLE_STORED_CONFIG |-> <<>>]

\* StoredConfig{}: hosts and insecure are maps, here functions on their keys
NoStored == [defaultHost |-> <<>>, hosts |-> <<>>, insecure |-> <<>>]

\* an empty secure store: every Get fails
NoKeyring == <<>>

\* the environments a command is started in: every setting of the URL and
\* the auth variables, and with those unset a URL that does not parse or
\* has no host and a project key that is blank, of the greatest length
\* accepted, or one character longer
Envs ==
    {[NoEnv EXCEPT !.BITBUCKET_URL = u, !.BITBUCKET_TOKEN = t, !.BITBUCKET_USERNAME = n,
                   !.BITBUCKET_USER = a, !.BITBUCKET_PASSWORD = p,
                   !.BBSC_DISABLE_STORED_CONFIG = d] :
        u \in {<<>>, <<"h1", " ">>, <<"http://", "H2">>},
        t \in {<<>>, <<" ">>, <<"et">>},
        n \in {<<>>, <<"eu">>},
        a \in {<<>>, <<"ea">>},
        p \in {<<>>, <<"ep">>},
        d \in {<<>>, <<"1">>}}
    \cup
    {[NoEnv EXCEPT !.BITBUCKET_URL = u, !.BITBUCKET_PROJECT_KEY = k] :
        u \in {<<>>, <<"://", "h1">>, <<"http://">>},
        k \in {<<>>, <<" ">>, [i \in 1..MaxProjectKeyLen |-> "K"],
               [i \in 1..(MaxProjectKeyLen + 1) |-> "K"]}}

\* the keys of the two hosts logged in to
K1 == <<"http://", "h1">>
K2 == <<"http://", "h2">>

StoredProfile(u, n) == [url |-> u, username |-> n]
StoredSecret(t, p) == [token |-> t, password |-> p]

\* a map of one entry, of two entries
Map1(k, v) == [x \in {k} |-> v]
Map2(k, v, l, w) == [x \in {k, l} |-> IF x = k THEN v ELSE w]

\* the hosts and the default host of the stored documents: none, h1 logged
\* in to with and without a username, h2 only, both with either as default
StoredHosts ==
    {[defaultHost |-> <<>>, hosts |-> <<>>],
     [defaultHost |-> K1, hosts |-> Map1(K1, StoredProfile(K1, <<"su">>))],
     [defaultHost |-> K1, hosts |-> Map1(K1, StoredProfile(K1, <<>>))],
     [defaultHost |-> K2, hosts |-> Map1(K2, StoredProfile(K2, <<"su2">>))],
     [defaultHost |-> K1, hosts |-> Map2(K1, StoredProfile(K1, <<"su">>),
                                         K2, StoredProfile(K2, <<"su2">>))],
     [defaultHost |-> K2, hosts |-> Map2(K1, StoredProfile(K1, <<"su">>),
                                         K2, StoredProfile(K2, <<"su2">>))]}

\* the insecure fallback records: none, or one for h1
InsecureRecords ==
    {<<>>} \cup {Map1(K1, StoredSecret(t, p)) :
                    t \in {<<>>, <<"it">>}, p \in {<<>>, <<"ip">>}}

StoredConfigs ==
    {[defaultHost |-> h.defaultHost, hosts |-> h.hosts, insecure |-> i] :
        h \in StoredHosts, i \in InsecureRecords}

\* the secure store: for each key what Get answers for its token and its
\* password, None when Get fails
Keyrings ==
    {Map2(K1, StoredSecret(t, p), K2, StoredSecret(Some(<<"kt2">>), None)) :
        t \in {None, Some(<<" ">>), Some(<<"kt">>)},
        p \in {None, Some(<<"kp">>)}}

\* keyring.Get(service, key + ":" + field)
keyringGet(kr, key, field) == IF key \in DOMAIN kr THEN kr[key][field] ELSE None

\* envOrDefault on a trimmed value
valueOr(value, fallback) == IF value = <<>> THEN fallback ELSE value

envOrDefault(e, value, fallback) == valueOr(TrimSpace(value), fallback)

\* the value Get answered when it succeeded with one that is not blank
notBlank(got) == IF got # None /\ TrimSpace(got[1]) # <<>> THEN got[1] ELSE <<>>

secureSecret(kr, key, field) == notBlank(keyringGet(kr, key, field))

\* resolveStoredCredentials with the fallback record read first
resolveSecret_insecureFirst(st, kr, key, field) ==
    IF key \in DOMAIN st.insecure /\ st.insecure[key][field] # <<>>
    THEN st.insecure[key][field]
    ELSE secureSecret(kr, key, field)

\* resolveStoredCredentials, one secret: the secure value, the fallback
\* record's when there is none.  (The fallback record is read when either
\* secret is empty, and then fills the empty ones.)
secretOr(secure, st, key, field) ==
    IF secure # <<>> THEN secure
    ELSE IF key \in DOMAIN st.insecure THEN st.insecure[key][field]
    ELSE <<>>

resolveSecret(st, kr, key, field) == secretOr(secureSecret(kr, key, field), st, key, field)

\* resolveStoredCredentials reading the default profile whenever there is one
profileAt_defaultFirst(st, key) ==
    IF DOMAIN st.hosts = {} THEN None
    ELSE IF st.defaultHost # <<>> /\ st.defaultHost \in DOMAIN st.hosts
    THEN Some(st.defaultHost)
    ELSE IF key \in DOMAIN st.hosts THEN Some(key)
    ELSE None

\* the key resolveStoredCredentials reads the profile and the secrets at,
\* key being hostKey(runtimeURL): None when there is no profile for the URL
\* and no default one
profileAt(st, key) ==
    IF DOMAIN st.hosts = {} THEN None
    ELSE IF key \in DOMAIN st.hosts THEN Some(key)
    ELSE IF st.defaultHost = <<>> THEN None
    ELSE IF st.defaultHost \notin DOMAIN st.hosts THEN None
    ELSE Some(st.defaultHost)

profileKey(st, runtimeURL) == profileAt(st, hostKey(runtimeURL))

\* resolveStoredCredentials from the key k on: (stored, foundStored), with
\* the key read at
storedAt(st, kr, k) ==
    IF k = None
    THEN [found |-> FALSE, key |-> <<>>, config |-> NoConfig]
    ELSE [found |-> TRUE, key |-> k[1],
          config |-> AppConfig(normalizeURL(st.hosts[k[1]].url), <<>>,
                               resolveSecret(st, kr, k[1], "token"),
                               st.hosts[k[1]].username,
                               resolveSecret(st, kr, k[1], "password"), <<>>)]

resolveStoredCredentials(st, kr, runtimeURL) == storedAt(st, kr, profileKey(st, runtimeURL))

\* LoadFromEnv: the URL of the environment, of the default profile when the
\* environment has none
urlOrStored(envHost, st) ==
    IF envHost # <<>> THEN normalizeURL(envHost)
    ELSE IF st.defaultHost # <<>> /\ st.defaultHost \in DOMAIN st.hosts
    THEN normalizeURL(st.hosts[st.defaultHost].url)
    ELSE <<>>

\* LoadFromEnv: the built-in URL when there is none
urlOrDefault(resolvedURL) == IF resolvedURL = <<>> THEN DefaultURL ELSE resolvedURL

resolveURL(e, st) == urlOrDefault(urlOrStored(TrimSpace(e.BITBUCKET_URL), st))

\* LoadFromEnv with the stored value taken whenever there is one
fillFromStored_storedWins(value, storedValue) ==
    IF storedValue # <<>> THEN storedValue ELSE value

\* LoadFromEnv: a field the environment left empty takes the stored value
fillFromStored(value, storedValue) ==
    IF value = <<>> /\ storedValue # <<>> THEN storedValue ELSE value

\* LoadFromEnv: one of the auth variables holds a character
authEnvSet(e) ==
    \/ e.BITBUCKET_TOKEN # <<>>
    \/ e.BITBUCKET_USERNAME # <<>>
    \/ e.BITBUCKET_USER # <<>>
    \/ e.BITBUCKET_PASSWORD # <<>>
    \/ e.ADMIN_USER # <<>>
    \/ e.ADMIN_PASSWORD # <<>>

\* LoadFromEnv: the config of the environment
envConfig(e, st) ==
    AppConfig(resolveURL(e, st),
              envOrDefault(e, e.BITBUCKET_PROJECT_KEY, DefaultProjectKey),
              envOrDefault(e, e.BITBUCKET_TOKEN, <<>>),
              envOrDefault(e, e.BITBUCKET_USERNAME,
                  envOrDefault(e, e.BITBUCKET_USER, envOrDefault(e, e.ADMIN_USER, <<>>))),
              envOrDefault(e, e.BITBUCKET_PASSWORD, envOrDefault(e, e.ADMIN_PASSWORD, <<>>)),
              <<"env/default">>)

\* LoadFromEnv: the auth source of config c
authSourceOf(e, c, foundStored) ==
    IF authEnvSet(e) THEN <<"env">>
    ELSE IF foundStored /\ (c.token # <<>> \/ (c.username # <<>> /\ c.password # <<>>))
    THEN <<"stored">>
    ELSE <<"env/default">>

withAuthSource(e, c, foundStored) == [c EXCEPT !.authSource = authSourceOf(e, c, foundStored)]

\* LoadFromEnv: config c with its empty fields filled from the stored
\* credentials r
filled(c, r) ==
    IF r.found
    THEN [c EXCEPT !.username = fillFromStored(c.username, r.config.username),
                   !.token = fillFromStored(c.token, r.config.token),
                   !.password = fillFromStored(c.password, r.config.password)]
    ELSE c

\* LoadFromEnv: config c with the stored credentials r
withStored(e, c, r) ==
    IF e.BBSC_DISABLE_STORED_CONFIG = <<"1">> THEN c
    ELSE withAuthSource(e, filled(c, r), r.found)

\* LoadFromEnv: the stored credentials for config c
storedFor(e, c, st, kr) == withStored(e, c, resolveStoredCredentials(st, kr, c.url))

\* LoadFromEnv up to Validate
loadConfig(e, st, kr) == storedFor(e, envConfig(e, st), st, kr)

\* Validate without its check of the username and the password
Validate_noPair(c) ==
    LET parsedURL == urlParse(c.url)
    IN  IF ~parsedURL.ok \/ parsedURL.scheme = <<>> \/ parsedURL.host = <<>>
        THEN "validation"
        ELSE IF TrimSpace(c.projectKey) = <<>> THEN "validation"
        ELSE IF Len(TrimSpace(c.projectKey)) > MaxProjectKeyLen THEN "validation"
        ELSE "none"

\* AppConfig.Validate: "none" for nil
Validate(c) ==
    LET parsedURL == urlParse(c.url)
    IN  IF ~parsedURL.ok \/ parsedURL.scheme = <<>> \/ parsedURL.host = <<>>
        THEN "validation"
        ELSE IF TrimSpace(c.projectKey) = <<>> THEN "validation"
        ELSE IF Len(TrimSpace(c.projectKey)) > MaxProjectKeyLen THEN "validation"
        ELSE IF (c.username = <<>>) # (c.password = <<>>) THEN "validation"
        ELSE "none"

\* LoadFromEnv: (config, error) of config c validated as v
validated(c, v) ==
    IF v # "none" THEN [config |-> NoConfig, err |-> v] ELSE [config |-> c, err |-> "none"]

validatedConfig(c) == validated(c, Validate(c))

\* LoadFromEnv: (config, error)
LoadFromEnv(e, st, kr) == validatedConfig(loadConfig(e, st, kr))

\* the --host flag of auth status
HostFlags == {<<>>, <<"h2">>}

\* auth status: os.Setenv of the --host flag when it is set
withHost(e, statusHost) ==
    IF TrimSpace(statusHost) # <<>> THEN [e EXCEPT !.BITBUCKET_URL = statusHost] ELSE e

\* what LoadFromEnv read from the stored credentials: None when the lookup
\* is disabled
storedRead(e, st, kr) ==
    IF e.BBSC_DISABLE_STORED_CONFIG = <<"1">> THEN None
    ELSE Some(resolveStoredCredentials(st, kr, resolveURL(e, st)))

\* a command given the --host flag h loads its configuration from the
\* environment it was started in, the stored document and the secure store;
\* it goes on to p when the configuration is loaded
Loaded(o, h, e, r, sr, p) ==
    /\ op' = o
    /\ call' = [host |-> h, env |-> env]
    /\ env' = e
    /\ resolved' = sr
    /\ config' = r.config
    /\ err' = r.err
    /\ pc' = IF r.err = "none" THEN p ELSE "done"
    /\ UNCHANGED <<procs, server, reqs, resps, results, start, attempt, slept, stored, keyring, exit>>

LoadIn(o, h, e, p) ==
    Loaded(o, h, e, LoadFromEnv(e, stored, keyring), storedRead(e, stored, keyring), p)

Load(o, h, p) == LoadIn(o, h, withHost(env, h), p)

\* auth status: the configuration is loaded and printed
AuthStatus ==
    /\ pc = "idle"
    /\ \E h \in HostFlags : Load("AuthStatus", h, "done")

\* a command that calls the server: the configuration is loaded, a client
\* is made of it
CommandLoad ==
    /\ pc = "idle"
    /\ Load("Command", <<>>, "send")

\* applyAuth with the password tried first
applyAuth_basicFirst(c) ==
    IF c.username # <<>> /\ c.password # <<>>
    THEN <<[scheme |-> "Basic", credentials |-> <<c.username, c.password>>]>>
    ELSE IF c.token # <<>>
    THEN <<[scheme |-> "Bearer", credentials |-> <<c.token>>]>>
    ELSE <<>>

\* httpclient applyAuth: the Authorization headers of a request, in order
applyAuth(c) ==
    IF c.token # <<>>
    THEN <<[scheme |-> "Bearer", credentials |-> <<c.token>>]>>
    ELSE IF c.username # <<>> /\ c.password # <<>>
    THEN <<[scheme |-> "Basic", credentials |-> <<c.username, c.password>>]>>
    ELSE <<>>

\* the request editor of the generated client
requestEditor(c) ==
    IF c.token # <<>>
    THEN <<[scheme |-> "Bearer", credentials |-> <<c.token>>]>>
    ELSE IF c.username # <<>> /\ c.password # <<>>
    THEN <<[scheme |-> "Basic", credentials |-> <<c.username, c.password>>]>>
    ELSE <<>>

Clients == {"httpclient", "openapi"}

\* the client made of the configuration sends a request
ClientSend ==
    /\ pc = "send"
    /\ \E client \in Clients :
           reqs' = Append(reqs, [client |-> client, url |-> config.url,
                                 authorization |-> IF client = "httpclient"
                                                   THEN applyAuth(config)
                                                   ELSE requestEditor(config)])
    /\ pc' = "done"
    /\ UNCHANGED <<procs, server, op, call, resps, results, start, resolved, err, attempt, slept, env,
                   stored, keyring, config, exit>>


----------------------------------------------------------------------------
(* A server that holds state *)

\* the server's answer to a request for the comment sv: a GET returns it
\* with its version, a PUT or DELETE is refused with 409 unless it carries
\* the version the server holds
serverAnswer(sv, request) ==
    IF request.method = "GET"
    THEN Answer("none", 200, Some([version |-> Some(sv.version)]))
    ELSE IF request.method = "PUT"
    THEN Answer("none", IF request.version = Some(sv.version) THEN 200 ELSE 409, None)
    ELSE Answer("none", IF request.version = Some(Itoa(sv.version)) THEN 204 ELSE 409, None)

\* another writer changes the comment before or during the client's call:
\* the server counts its version up
OtherWriter ==
    /\ pc \in {"idle", "read", "write"}
    /\ server.version < MaxVersion
    /\ server' = [version |-> server.version + 1, author |-> "other"]
    /\ UNCHANGED <<pc, op, call, reqs, resps, results, start, resolved, err, attempt, slept,
                   env, stored, keyring, config, exit, procs>>

\* the precondition read of Update and Delete, answered by the server
ServedRead ==
    /\ CommentRead
    /\ resps' = Append(resps, serverAnswer(server, reqs'[Len(reqs')]))

\* the write of Update and of Delete, answered by the server
ServedWrite ==
    /\ CommentUpdateWrite \/ CommentDeleteWrite
    /\ resps' = Append(resps, serverAnswer(server, reqs'[Len(reqs')]))

\* a drain's loop body against a server whose collection holds more than
\* 2^24 items: the page's cursor is a small one or lies beyond 2^24
FarFetch ==
    /\ pc = "list"
    /\ Len(reqs) < MaxRequests
    /\ \E last \in {"true", "false"}, n \in {3, Pow2(24) + 1} :
           LET a == Answer("none", 200, Some([values |-> Some(<<1>>), isLastPage |-> last,
                                              nextPageStart |-> Some(n)]))
           IN  CASE op = "CommentList" ->
                        Fetch(a, commentListStep(Cursor, a), Float32(call.limit))
                 [] op = "TagList" -> Fetch(a, tagListStep(Cursor, a), Float32(call.limit))
                 [] OTHER -> Fetch(a, listPagedStep(Cursor, a), call.limit)

----------------------------------------------------------------------------
(* Login and logout *)

\* the CLI invocations that run against one config path at a time
Invocations == {1, 2}

\* the flags of auth login; auth logout has the host only
LoginInputs ==
    [host : {<<>>, <<"h1">>, <<"http://", "H2">>}, username : {<<>>, <<"lu">>},
     password : {<<>>, <<"lp">>}, token : {<<>>, <<"lt">>}, setDefault : BOOLEAN]

\* where an invocation stands: "idle" before its command, "loaded" when it
\* has read the stored document doc, "exited" after it returned err
Invocation(p, c, i, d, e) == [pc |-> p, cmd |-> c, input |-> i, doc |-> d, err |-> e]

\* a map with the entry at k set to v[1], or deleted when v is None
mapWith(m, k, v) ==
    [x \in IF v = None THEN DOMAIN m \ {k} ELSE DOMAIN m \cup {k} |->
        IF x = k THEN v[1] ELSE m[x]]

\* keyring.Set (value Some) and keyring.Delete (value None) of key:field; a
\* key that holds neither secret is not kept
keyringWith(kr, key, field, value) ==
    LET held == [StoredSecret(keyringGet(kr, key, "token"),
                              keyringGet(kr, key, "password")) EXCEPT ![field] = value]
    IN  mapWith(kr, key, IF held = StoredSecret(None, None) THEN None ELSE Some(held))

\* SaveLogin: the check of its input
checkLogin(input) ==
    LET hasToken == TrimSpace(input.token) # <<>>
        hasBasic == TrimSpace(input.username) # <<>> \/ TrimSpace(input.password) # <<>>
    IN  IF normalizeURL(TrimSpace(input.host)) = <<>> THEN "validation"
        ELSE IF hasToken = hasBasic THEN "validation"
        ELSE IF hasBasic /\ (TrimSpace(input.username) = <<>>
                                \/ TrimSpace(input.password) = <<>>)
        THEN "validation"
        ELSE "none"

\* savedLogin writing a document that holds the host logged in to only
savedLogin_keepsOnly(d, kr, input, setOK, deleteOK) ==
    LET host == normalizeURL(TrimSpace(input.host))
        key == hostKey(host)
        hasToken == TrimSpace(input.token) # <<>>
        field == IF hasToken THEN "token" ELSE "password"
        secret == TrimSpace(input[field])
        profile == StoredProfile(host, IF hasToken THEN <<>> ELSE TrimSpace(input.username))
        insecure == [StoredSecret(<<>>, <<>>) EXCEPT ![field] = secret]
        set == IF setOK THEN keyringWith(kr, key, field, Some(secret)) ELSE kr
    IN  [keyring |-> IF deleteOK
                     THEN keyringWith(set, key, IF hasToken THEN "password" ELSE "token", None)
                     ELSE set,
         stored |-> [defaultHost |-> IF input.setDefault \/ d.defaultHost = <<>>
                                     THEN key ELSE d.defaultHost,
                     hosts |-> mapWith(<<>>, key, Some(profile)),
                     insecure |-> mapWith(d.insecure, key,
                                          IF setOK THEN None ELSE Some(insecure))]]

\* SaveLogin after its read of the document d: the secure store and the
\* document it writes; setOK and deleteOK tell whether keyring.Set and
\* keyring.Delete succeed
savedLogin(d, kr, input, setOK, deleteOK) ==
    LET host == normalizeURL(TrimSpace(input.host))
        key == hostKey(host)
        hasToken == TrimSpace(input.token) # <<>>
        field == IF hasToken THEN "token" ELSE "password"
        secret == TrimSpace(input[field])
        profile == StoredProfile(host, IF hasToken THEN <<>> ELSE TrimSpace(input.username))
        insecure == [StoredSecret(<<>>, <<>>) EXCEPT ![field] = secret]
        set == IF setOK THEN keyringWith(kr, key, field, Some(secret)) ELSE kr
    IN  [keyring |-> IF deleteOK
                     THEN keyringWith(set, key, IF hasToken THEN "password" ELSE "token", None)
                     ELSE set,
         stored |-> [defaultHost |-> IF input.setDefault \/ d.defaultHost = <<>>
                                     THEN key ELSE d.defaultHost,
                     hosts |-> mapWith(d.hosts, key, Some(profile)),
                     insecure |-> mapWith(d.insecure, key,
                                          IF setOK THEN None ELSE Some(insecure))]]

\* Logout: the key of the host logged out of
logoutKey(d, host) ==
    hostKey(IF normalizeURL(TrimSpace(host)) = <<>> THEN d.defaultHost
            ELSE normalizeURL(TrimSpace(host)))

\* loggedOut leaving no default host when the default one is logged out of
loggedOut_noNext(d, kr, key, tokenOK, passwordOK, next) ==
    [keyring |-> keyringWith(keyringWith(kr, key, "token",
                                         IF tokenOK THEN None
                                         ELSE keyringGet(kr, key, "token")),
                             key, "password",
                             IF passwordOK THEN None ELSE keyringGet(kr, key, "password")),
     stored |-> [defaultHost |-> IF d.defaultHost = key THEN <<>> ELSE d.defaultHost,
                 hosts |-> mapWith(d.hosts, key, None),
                 insecure |-> mapWith(d.insecure, key, None)]]

\* Logout after its read of the document d: the secure store and the
\* document it writes; next is the host the range over the hosts left
\* yields first, empty when none is left
loggedOut(d, kr, key, tokenOK, passwordOK, next) ==
    [keyring |-> keyringWith(keyringWith(kr, key, "token",
                                         IF tokenOK THEN None
                                         ELSE keyringGet(kr, key, "token")),
                             key, "password",
                             IF passwordOK THEN None ELSE keyringGet(kr, key, "password")),
     stored |-> [defaultHost |-> IF d.defaultHost = key THEN next ELSE d.defaultHost,
                 hosts |-> mapWith(d.hosts, key, None),
                 insecure |-> mapWith(d.insecure, key, None)]]

\* auth login up to SaveLogin's LoadStoredConfig
AuthLogin(i) ==
    /\ procs[i].pc # "loaded"
    /\ \E input \in LoginInputs :
           procs' = [procs EXCEPT ![i] =
                        IF checkLogin(input) # "none"
                        THEN Invocation("exited", "login", input, NoStored, checkLogin(input))
                        ELSE Invocation("loaded", "login", input, stored, "none")]
    /\ UNCHANGED <<pc, op, call, reqs, resps, results, start, resolved, err, attempt, slept,
                   env, stored, keyring, config, exit, server>>

\* auth login: SaveLogin from the secrets to SaveStoredConfig
AuthLoginSave(i) ==
    /\ procs[i].pc = "loaded"
    /\ procs[i].cmd = "login"
    /\ \E setOK \in BOOLEAN, deleteOK \in BOOLEAN :
           /\ keyring' = savedLogin(procs[i].doc, keyring, procs[i].input, setOK, deleteOK).keyring
           /\ stored' = savedLogin(procs[i].doc, keyring, procs[i].input, setOK, deleteOK).stored
    /\ procs' = [procs EXCEPT ![i].pc = "exited"]
    /\ UNCHANGED <<pc, op, call, reqs, resps, results, start, resolved, err, attempt, slept,
                   env, config, exit, server>>

\* auth logout up to Logout's choice of the host
AuthLogout(i) ==
    /\ procs[i].pc # "loaded"
    /\ \E input \in LoginInputs :
           /\ input = [input EXCEPT !.username = <<>>, !.password = <<>>, !.token = <<>>,
                                    !.setDefault = FALSE]
           /\ procs' = [procs EXCEPT ![i] =
                           IF normalizeURL(TrimSpace(input.host)) = <<>>
                                  /\ stored.defaultHost = <<>>
                           THEN Invocation("exited", "logout", input, NoStored, "not_found")
                           ELSE Invocation("loaded", "logout", input, stored, "none")]
    /\ UNCHANGED <<pc, op, call, reqs, resps, results, start, resolved, err, attempt, slept,
                   env, stored, keyring, config, exit, server>>

\* auth logout: Logout from the secrets to SaveStoredConfig
AuthLogoutSave(i) ==
    /\ procs[i].pc = "loaded"
    /\ procs[i].cmd = "logout"
    /\ \E tokenOK \in BOOLEAN, passwordOK \in BOOLEAN,
          next \in DOMAIN procs[i].doc.hosts \cup {<<>>} :
           /\ next # logoutKey(procs[i].doc, procs[i].input.host)
           /\ next = <<>> <=>
                  DOMAIN procs[i].doc.hosts \ {logoutKey(procs[i].doc, procs[i].input.host)} = {}
           /\ keyring' = loggedOut(procs[i].doc, keyring,
                                   logoutKey(procs[i].doc, procs[i].input.host),
                                   tokenOK, passwordOK, next).keyring
           /\ stored' = loggedOut(procs[i].doc, keyring,
                                  logoutKey(procs[i].doc, procs[i].input.host),
                                  tokenOK, passwordOK, next).stored
    /\ procs' = [procs EXCEPT ![i].pc = "exited"]
    /\ UNCHANGED <<pc, op, call, reqs, resps, results, start, resolved, err, attempt, slept,
                   env, config, exit, server>>

----------------------------------------------------------------------------
(* The names of the files of a diff *)

\* A line of a diff is a string of these parts: " " is a blank, "a/" and
\* "b/" are the prefixes of the two sides, "/dev/null" is the side that is
\* absent, "x" and "y" are names. A diff is the sequence of its lines, which
\* is what strings.Split(diffText, "\n") makes of it.

\* strings.Fields: the words of rest, the maximal runs of parts that are not
\* blanks, after the words done and the word begun
RECURSIVE Fields(_, _, _)
Fields(done, word, rest) ==
    IF rest = <<>>
    THEN IF word = <<>> THEN done ELSE Append(done, word)
    ELSE IF Head(rest) = " "
    THEN Fields(IF word = <<>> THEN done ELSE Append(done, word), <<>>, Tail(rest))
    ELSE Fields(done, Append(word, Head(rest)), Tail(rest))

\* extractNamesFromUnifiedDiff: the loop over the lines left, names being
\* the slice built so far (seen holds the same names)
RECURSIVE extractNamesFromUnifiedDiff(_, _)
extractNamesFromUnifiedDiff(names, lines) ==
    IF lines = <<>> THEN names
    ELSE LET line == Head(lines)
             TrimPrefix(value, prefix) ==
                 IF value # <<>> /\ value[1] = prefix THEN Tail(value) ELSE value
             HasPrefix == Len(line) >= 4 /\ SubSeq(line, 1, 4) = <<"diff", " ", "--git", " ">>
             parts == Fields(<<>>, <<>>, line)
             bSide == TrimPrefix(parts[4], "b/")
             candidate ==
                 IF bSide = <<"/dev/null">> \/ bSide = <<>>
                 THEN TrimPrefix(parts[3], "a/")
                 ELSE bSide
             skipped ==
                 \/ ~HasPrefix
                 \/ Len(parts) < 4
                 \/ candidate = <<>>
                 \/ candidate = <<"/dev/null">>
                 \/ \E i \in 1..Len(names) : names[i] = candidate
         IN  extractNamesFromUnifiedDiff(
                 IF skipped THEN names ELSE Append(names, candidate), Tail(lines))

\* DiffPR with the name-only output, the server answering 200 with the raw
\* diff of some files: every file has its "diff --git" line, which names the
\* path on each side (<<>> for a side that is absent), and a hunk after it
DiffNameOnly ==
    /\ pc = "idle"
    /\ \E n \in 0..MaxFiles :
           \E files \in [1..n -> ([a : {<<>>, <<"x">>, <<"y">>, <<"x", " ", "y">>},
                                   b : {<<>>, <<"x">>, <<"y">>, <<"x", " ", "y">>}]
                                     \ {[a |-> <<>>, b |-> <<>>]})] :
               LET side(prefix, path) ==
                       IF path = <<>> THEN <<"/dev/null">> ELSE <<prefix>> \o path
                   header(f) ==
                       <<"diff", " ", "--git", " ">> \o side("a/", f.a) \o <<" ">>
                           \o side("b/", f.b)
                   diffText ==
                       [j \in 1..(2 * n) |->
                           IF j % 2 = 1 THEN header(files[(j + 1) \div 2]) ELSE <<"@@">>]
               IN  /\ call' = [files |-> files]
                   /\ resps' = <<Answer("none", 200, Some(diffText))>>
                   /\ results' = extractNamesFromUnifiedDiff(<<>>, diffText)
    /\ op' = "DiffNameOnly"
    /\ reqs' = <<Request("GET", 0, 0, None)>>
    /\ err' = "none"
    /\ pc' = "done"
    /\ UNCHANGED <<procs, server, start, resolved, attempt, slept, env, stored, keyring,
                   config, exit>>

----------------------------------------------------------------------------

Init ==
    /\ pc = "idle"
    /\ op = "none"
    /\ call = NoCall
    /\ reqs = <<>>
    /\ resps = <<>>
    /\ results = <<>>
    /\ start = 0
    /\ resolved = None
    /\ err = "none"
    /\ attempt = 0
    /\ slept = <<>>
    /\ env = NoEnv
    /\ stored = NoStored
    /\ keyring = NoKeyring
    /\ config = NoConfig
    /\ exit = None
    /\ procs = [i \in Invocations |-> Invocation("idle", "none", <<>>, NoStored, "none")]
    /\ server = [version |-> 0, author |-> "original"]

Next ==
    \/ InvokeRepoList
    \/ InvokeRepoListByProject
    \/ InvokeTagList
    \/ InvokeCommentList
    \/ RepoListFetch
    \/ CommentListFetch
    \/ TagListFetch
    \/ InvokeCommentCreate
    \/ CommentCreateSend
    \/ InvokeCommentGet
    \/ CommentGetSend
    \/ InvokeCommentUpdate
    \/ InvokeCommentDelete
    \/ CommentRead
    \/ CommentUpdateWrite
    \/ CommentDeleteWrite
    \/ InvokeExec
    \/ GetJSONAttempt
    \/ HealthAttempt
    \/ Exit

Spec == Init /\ [][Next]_vars

\* the classifiers and the exit code, each on every input
KindNext ==
    \/ ClassifyStatus
    \/ DiffNameOnly
    \/ NotImplementedCommand
    \/ CommandReturns
    \/ Exit

KindSpec == Init /\ [][KindNext]_vars

\* loading the configuration and using it
ConfigNext ==
    \/ AuthStatus
    \/ CommandLoad
    \/ ClientSend
    \/ Exit

\* a command is started in any environment, with any stored document and
\* secure store
ConfigInit ==
    /\ pc = "idle"
    /\ op = "none"
    /\ call = NoCall
    /\ reqs = <<>>
    /\ resps = <<>>
    /\ results = <<>>
    /\ start = 0
    /\ resolved = None
    /\ err = "none"
    /\ attempt = 0
    /\ slept = <<>>
    /\ env \in Envs
    /\ stored \in StoredConfigs
    /\ keyring \in Keyrings
    /\ config = NoConfig
    /\ exit = None
    /\ procs = [i \in Invocations |-> Invocation("idle", "none", <<>>, NoStored, "none")]
    /\ server = [version |-> 0, author |-> "original"]

ConfigSpec == ConfigInit /\ [][ConfigNext]_vars

\* auth login and auth logout run one after the other, any number of times,
\* from an empty stored document and an empty secure store
LoginNext ==
    \/ AuthLogin(1)
    \/ AuthLoginSave(1)
    \/ AuthLogout(1)
    \/ AuthLogoutSave(1)

LoginSpec == Init /\ [][LoginNext]_vars

\* two invocations, each running auth login or auth logout once, at the
\* same time
RaceNext ==
    \E i \in Invocations :
        \/ procs[i].pc = "idle" /\ AuthLogin(i)
        \/ AuthLoginSave(i)
        \/ procs[i].pc = "idle" /\ AuthLogout(i)
        \/ AuthLogoutSave(i)

RaceSpec == Init /\ [][RaceNext]_vars

\* calls against a server that holds state: a comment that other writers
\* change, and collections of more than 2^24 items
ServerNext ==
    \/ InvokeCommentUpdate
    \/ InvokeCommentDelete
    \/ OtherWriter
    \/ ServedRead
    \/ ServedWrite
    \/ InvokeRepoList
    \/ InvokeTagList
    \/ InvokeCommentList
    \/ FarFetch
    \/ Exit

ServerSpec == Init /\ [][ServerNext]_vars

----------------------------------------------------------------------------
(* What the claims speak of *)

\* the operations of the drains, of the comment service
DrainOps == {"RepoList", "RepoListByProject", "CommentList", "TagList"}

CommentOps ==
    {"CommentList", "CommentCreate", "CommentGet", "CommentUpdate", "CommentDelete"}

\* a string is set when it holds a character that is not white space
IsSet(s) == \E i \in 1..Len(s) : s[i] # " "

\* the kind the specification gives a status (section 4.1)
ExpectedKind(status) ==
    CASE status \in 200..299 -> "none"
      [] status = 400 -> "validation"
      [] status = 401 -> "authentication"
      [] status = 403 -> "authorization"
      [] status = 404 -> "not_found"
      [] status = 409 -> "conflict"
      [] status = 429 -> "transient"
      [] status \in 500..599 -> "transient"
      [] OTHER -> "permanent"

\* the answer carries a page: a 200 whose envelope was decoded
IsPage(a) == a.terr = "none" /\ a.status = 200 /\ a.payload # None

PageValues(a) == IF a.payload[1].values = None THEN <<>> ELSE a.payload[1].values[1]

Terminal(a) == a.payload[1].isLastPage = "true"

HasNext(a) == a.payload[1].nextPageStart # None

HasValues(a) == a.payload[1].values # None

RECURSIVE ConcatValues(_)
ConcatValues(h) ==
    IF h = <<>> THEN <<>>
    ELSE ConcatValues(SubSeq(h, 1, Len(h) - 1)) \o PageValues(h[Len(h)])

\* h is the start of a sequence of pages in which only the final page is
\* marked last and every earlier page carries a cursor
PagesInOrder(h) ==
    \A i \in 1..Len(h) :
        /\ IsPage(h[i])
        /\ i < Len(h) => (~Terminal(h[i]) /\ HasNext(h[i]))

\* the drain has output exactly the pages so far, has returned if the last
\* of them is the final page, and goes on to the next page if it is not
DrainedInOrder ==
    /\ results = ConcatValues(resps)
    /\ Len(reqs) = Len(resps)
    /\ Terminal(resps[Len(resps)]) => (pc = "done" /\ err = "none")
    /\ (~Terminal(resps[Len(resps)]) /\ HasNext(resps[Len(resps)])) => pc = "list"

\* C1 as claimed: for any sequence of pages in which only the final page has
\* isLastPage=true and every earlier page carries a nextPageStart, every drain
\* returns exactly the concatenation of all pages' values, in order.
C1_AsClaimed ==
    (op \in DrainOps /\ resps # <<>> /\ PagesInOrder(resps)) => DrainedInOrder

\* C1, amended: the same, for sequences in which every page before the final
\* one also carries a values list (the comment and tag drains return at a page
\* that has none).
C1_DrainConcatenates ==
    (/\ op \in DrainOps
     /\ resps # <<>>
     /\ PagesInOrder(resps)
     /\ \A i \in 1..Len(resps) : ~Terminal(resps[i]) => HasValues(resps[i]))
        => DrainedInOrder

\* a comment drain that returned three pages' values in order
C1_Witness ==
    /\ op = "CommentList"
    /\ pc = "done"
    /\ err = "none"
    /\ Len(resps) = 3
    /\ PagesInOrder(resps)
    /\ results = <<2, 1, 1, 2, 1>>

\* C2: a page with isLastPage=false and no nextPageStart ends every drain: no
\* further page request follows it.
C2_StopsWithoutCursor ==
    \A i \in 1..Len(resps) :
        (/\ op \in DrainOps
         /\ IsPage(resps[i])
         /\ resps[i].payload[1].isLastPage = "false"
         /\ ~HasNext(resps[i]))
            => (pc = "done" /\ Len(reqs) = i)

\* C3: a page that is not marked last and has an empty or absent values list
\* ends every drain: no further page request follows it.
C3_StopsOnEmptyPage ==
    \A i \in 1..Len(resps) :
        (/\ op \in DrainOps
         /\ IsPage(resps[i])
         /\ ~Terminal(resps[i])
         /\ PageValues(resps[i]) = <<>>)
            => (pc = "done" /\ Len(reqs) = i)

Writes == {"PUT", "DELETE"}

VersionedOps == {"CommentUpdate", "CommentDelete"}

\* the read returned a comment: no failure of the round trip, a 2xx
ReadSucceeded(a) == a.terr = "none" /\ a.status \in 200..299

\* the version the read returned, None when the answer carries none
ReadVersion(a) == IF a.payload = None THEN None ELSE a.payload[1].version

\* C4: Delete without an explicit version sends one GET, then one DELETE
\* carrying the version the GET returned, and nothing else.
C4_DeleteAutoResolves ==
    (op = "CommentDelete" /\ call.version = None) =>
        /\ Len(reqs) <= 2
        /\ Len(reqs) >= 1 => reqs[1].method = "GET"
        /\ Len(reqs) = 2 =>
              /\ reqs[2].method = "DELETE"
              /\ ReadSucceeded(resps[1])
              /\ ReadVersion(resps[1]) # None =>
                    reqs[2].version = Some(Itoa(ReadVersion(resps[1])[1]))
        /\ (pc = "done" /\ resps # <<>> /\ ReadSucceeded(resps[1])) => Len(reqs) = 2
        /\ (pc = "done" /\ err = "none") =>
              (Len(reqs) = 2 /\ resolved = ReadVersion(resps[1]))

\* the read returned version 2 and the DELETE carried version=2
C4_Witness ==
    /\ op = "CommentDelete"
    /\ call.version = None
    /\ pc = "done"
    /\ err = "none"
    /\ Len(reqs) = 2
    /\ ReadVersion(resps[1]) = Some(2)
    /\ reqs[2] = Request("DELETE", 0, 0, Some(<<"2">>))

\* C5: every PUT or DELETE of Update or Delete carries a version, whatever the
\* read returned.
C5_WriteCarriesVersion ==
    \A i \in 1..Len(reqs) :
        (op \in VersionedOps /\ reqs[i].method \in Writes) => reqs[i].version # None

\* C6: when Update or Delete is called without a version and the read fails,
\* the call returns the read's error and sends no write.
C6_ReadFailureEndsCall ==
    (/\ op \in VersionedOps
     /\ call.version = None
     /\ resps # <<>>
     /\ ~ReadSucceeded(resps[1]))
        => /\ pc = "done"
           /\ Len(reqs) = 1
           /\ reqs[1].method = "GET"
           /\ err = IF resps[1].terr # "none" THEN "transient"
                    ELSE ExpectedKind(resps[1].status)

\* an Update whose read was answered 404
C6_Witness ==
    /\ op = "CommentUpdate"
    /\ call.version = None
    /\ pc = "done"
    /\ Len(resps) = 1
    /\ resps[1].status = 404
    /\ err = "not_found"

\* C7: a 409 answer to the write ends the call with a conflict error after
\* exactly one write: no second read, no second write.
C7_ConflictNotRetried ==
    \A i \in 1..Len(resps) :
        (/\ op \in VersionedOps
         /\ reqs[i].method \in Writes
         /\ resps[i].terr = "none"
         /\ resps[i].status = 409)
            => /\ pc = "done"
               /\ err = "conflict"
               /\ i = Len(reqs)
               /\ Cardinality({j \in 1..Len(reqs) : reqs[j].method \in Writes}) = 1
               /\ Cardinality({j \in 1..Len(reqs) : reqs[j].method = "GET"}) <= 1

\* an Update that read the version, wrote and was answered 409
C7_Witness ==
    /\ op = "CommentUpdate"
    /\ pc = "done"
    /\ Len(reqs) = 2
    /\ reqs[2].method = "PUT"
    /\ resps[2].status = 409
    /\ err = "conflict"

\* C8: with an explicit version no read is sent: the only request of the call
\* is the write, carrying the version supplied.
C8_ExplicitVersionSkipsRead ==
    (op \in VersionedOps /\ call.version # None) =>
        /\ Len(reqs) <= 1
        /\ \A i \in 1..Len(reqs) :
              /\ reqs[i].method = (IF op = "CommentUpdate" THEN "PUT" ELSE "DELETE")
              /\ reqs[i].version =
                    IF op = "CommentUpdate" THEN call.version
                    ELSE Some(Itoa(call.version[1]))
        /\ (pc = "done" /\ resps # <<>>) => Len(reqs) = 1

\* a Delete given version 1 that sent just the DELETE with version=1
C8_Witness ==
    /\ op = "CommentDelete"
    /\ call.version = Some(1)
    /\ pc = "done"
    /\ err = "none"
    /\ reqs = <<Request("DELETE", 0, 0, Some(<<"1">>))>>

\* both or neither of commitId and pullRequestId are set
BadTarget(t) == IsSet(t.commitID) = IsSet(t.pullRequestID)

\* C9: every comment operation on a target with both or neither of commitId
\* and pullRequestId set returns a validation error before any request.
C9_BadTargetRejected ==
    (op \in CommentOps /\ BadTarget(call.target)) =>
        (pc = "done" /\ err = "validation" /\ reqs = <<>> /\ resps = <<>>)

\* an Update on a target naming a repository, a commit and a pull request
C9_Witness ==
    /\ op = "CommentUpdate"
    /\ IsSet(call.target.projectKey)
    /\ IsSet(call.target.slug)
    /\ IsSet(call.target.commitID)
    /\ IsSet(call.target.pullRequestID)
    /\ pc = "done"
    /\ err = "validation"

\* the attempt ended in a transport failure, a 429 or a 5xx
EndedRetryable(a) ==
    \/ a.terr \in {"do", "ctx", "read"}
    \/ a.terr = "none" /\ (a.status = 429 \/ a.status >= 500)

\* C10: one GetJSON or Health call makes at most 3 attempts; when every
\* attempt ends in a transport failure, a 429 or a 5xx it makes exactly 3 and
\* returns a transient error.
C10_ThreeAttempts ==
    op \in ExecOps =>
        /\ Len(reqs) <= Retries + 1
        /\ (/\ pc = "done"
            /\ resps # <<>>
            /\ \A i \in 1..Len(resps) : EndedRetryable(resps[i]))
               => (Len(reqs) = Retries + 1 /\ err = "transient")

\* the answer is a 4xx other than 429
ClientError(a) == a.terr = "none" /\ a.status \in 400..499 /\ a.status # 429

\* the i-th attempt was made once and ended the call with error e: no wait
\* and no attempt follows it
EndedAt(i, e) ==
    /\ i = Len(resps)
    /\ Len(reqs) = i
    /\ Len(slept) = i - 1
    /\ pc = "done"
    /\ err = e

\* C11 as claimed: a 4xx response other than 429 ends an executor call after
\* exactly one attempt, with the classified error for that status; it is
\* never retried.
C11_AsClaimed ==
    op \in ExecOps =>
        \A i \in 1..Len(resps) :
            ClientError(resps[i]) => EndedAt(i, ExpectedKind(resps[i].status))

\* C11, amended: a 4xx response other than 429 ends an executor call after
\* exactly one attempt and is never retried; the call returns the classified
\* error for that status, except that Health returns no error on 401 and 403
\* (it reports the server as reachable and the caller as not authenticated).
C11_ClientErrorNotRetried ==
    op \in ExecOps =>
        \A i \in 1..Len(resps) :
            ClientError(resps[i]) =>
                EndedAt(i, IF op = "Health" /\ resps[i].status \in {401, 403}
                                THEN "none"
                                ELSE ExpectedKind(resps[i].status))

\* GetJSON answered 404 at its only attempt
C11_Witness ==
    /\ op = "GetJSON"
    /\ resps = <<Answer("none", 404, None)>>
    /\ pc = "done"
    /\ err = "not_found"
    /\ Len(reqs) = 1

\* C12: once cancellation fires during a GetJSON or Health call, the
\* in-flight attempt is abandoned and the call returns an error without
\* starting another attempt or another backoff wait.
C12_CancellationEndsCall ==
    op \in ExecOps =>
        \A i \in 1..Len(resps) :
            resps[i].terr = "ctx" =>
                (i = Len(resps) /\ pc = "done" /\ err # "none" /\ Len(slept) < i)

\* the last answer of the call
LastAnswer == resps[Len(resps)]

ExpectedExit(e) ==
    CASE e = "none" -> 0
      [] e = "validation" -> 2
      [] e \in {"authentication", "authorization"} -> 3
      [] e = "not_found" -> 4
      [] e = "conflict" -> 5
      [] e = "transient" -> 10
      [] e = "not_implemented" -> 11
      [] e \in {"permanent", "internal", "unclassified"} -> 1

\* C14: ExitCode gives every error one exit code: 0 for no error, 2 for
\* validation, 3 for authentication and authorization, 4 for not_found, 5 for
\* conflict, 10 for transient, 11 for not_implemented, 1 for permanent,
\* internal and every unclassified error; only the absence of an error gives 0.
C14_ExitCodeTable ==
    exit # None =>
        /\ exit[1] = ExpectedExit(err)
        /\ (exit[1] = 0) = (err = "none")

\* a command that is not implemented has exited with 11
C14_Witness ==
    /\ op = "NotImplemented"
    /\ err = "not_implemented"
    /\ exit = Some(11)

\* the call failed on an answer whose status a classifier was given
FailedOnStatus ==
    /\ err # "none"
    /\ resps # <<>>
    /\ LastAnswer.terr = "none"
    /\ ~(LastAnswer.status \in 200..299)

\* C15: the kind of a classified error is the same at the command boundary
\* as where it was produced: when an operation fails on a response, the
\* process exits with the exit code of the kind the classifier gives that
\* response's status, whatever layers lie between (the service, the read
\* before a write, the command, main).
C15_KindReachesExit ==
    (op \in DrainOps \cup CommentOps \cup ExecOps /\ exit # None /\ FailedOnStatus)
        => exit[1] = ExpectedExit(ExpectedKind(LastAnswer.status))

\* an Update whose read before the write was answered 404 has exited with 4
C15_Witness ==
    /\ op = "CommentUpdate"
    /\ Len(resps) = 1
    /\ LastAnswer.status = 404
    /\ LastAnswer.terr = "none"
    /\ reqs[1].method = "GET"
    /\ err = "not_found"
    /\ exit = Some(4)

ConfigOps == {"AuthStatus", "Command"}

\* the Authorization header the claim gives a request of a client made of c
ExpectedAuthorization(c) ==
    IF c.token # <<>> THEN <<[scheme |-> "Bearer", credentials |-> <<c.token>>]>>
    ELSE IF c.username # <<>> /\ c.password # <<>>
    THEN <<[scheme |-> "Basic", credentials |-> <<c.username, c.password>>]>>
    ELSE <<>>

\* C16: every outgoing request carries at most one authorization scheme:
\* Bearer whenever the configured token is non-empty (even if a username and
\* password are configured too), Basic only when the token is empty and both
\* username and password are non-empty, none otherwise.
C16_OneAuthScheme ==
    op = "Command" =>
        \A i \in 1..Len(reqs) :
            /\ Len(reqs[i].authorization) <= 1
            /\ reqs[i].authorization = ExpectedAuthorization(config)

\* a request with a Bearer header from a configuration that also holds a
\* username and a password
C16_Witness ==
    /\ op = "Command"
    /\ Len(reqs) = 1
    /\ config.token # <<>>
    /\ config.username # <<>>
    /\ config.password # <<>>
    /\ reqs[1].authorization[1].scheme = "Bearer"

\* the first of the values that is set, trimmed; empty when none is
RECURSIVE FirstSet(_)
FirstSet(values) ==
    IF values = <<>> THEN <<>>
    ELSE IF IsSet(Head(values)) THEN TrimSpace(Head(values))
    ELSE FirstSet(Tail(values))

\* what the environment the command was started in gives for each field
EnvValue(field) ==
    CASE field = "token" -> FirstSet(<<call.env.BITBUCKET_TOKEN>>)
      [] field = "username" ->
            FirstSet(<<call.env.BITBUCKET_USERNAME, call.env.BITBUCKET_USER,
                       call.env.ADMIN_USER>>)
      [] field = "password" ->
            FirstSet(<<call.env.BITBUCKET_PASSWORD, call.env.ADMIN_PASSWORD>>)

\* what the stored credentials give for a field
StoredValue(field) ==
    IF resolved # None /\ resolved[1].found THEN resolved[1].config[field] ELSE <<>>

\* the URL of the default stored profile
StoredURL ==
    IF stored.defaultHost \in DOMAIN stored.hosts
    THEN stored.hosts[stored.defaultHost].url
    ELSE <<>>

\* the URL of the highest source that has one: --host, the environment, the
\* stored profile, the built-in default
ExpectedURL ==
    IF IsSet(call.host) THEN normalizeURL(call.host)
    ELSE IF IsSet(call.env.BITBUCKET_URL) THEN normalizeURL(call.env.BITBUCKET_URL)
    ELSE IF IsSet(StoredURL) THEN normalizeURL(StoredURL)
    ELSE DefaultURL

\* a configuration was resolved with the stored lookup on
ResolvedWithStored ==
    /\ op \in ConfigOps
    /\ err = "none"
    /\ call.env.BBSC_DISABLE_STORED_CONFIG # <<"1">>

\* C17: each field of the resolved configuration takes its value from the
\* highest-precedence source that supplies one: the URL from the runtime
\* override, else the environment, else the stored profile, else the built-in
\* default; username, token and password from the environment when it sets
\* them, and from the stored values only when the environment left them empty.
C17_Precedence ==
    ResolvedWithStored =>
        /\ config.url = ExpectedURL
        /\ \A field \in {"username", "token", "password"} :
               config[field] = IF EnvValue(field) # <<>> THEN EnvValue(field)
                               ELSE StoredValue(field)

\* the environment gives the username and the password, the stored
\* credentials a different username and the token
C17_Witness ==
    /\ ResolvedWithStored
    /\ EnvValue("username") = <<"eu">>
    /\ EnvValue("token") = <<>>
    /\ StoredValue("username") = <<"su">>
    /\ StoredValue("token") # <<>>
    /\ config.username = <<"eu">>
    /\ config.token = StoredValue("token")

\* C18: with BBSC_DISABLE_STORED_CONFIG=1 the resolved configuration (URL,
\* username, token, password, auth source) depends only on the environment
\* and the built-in defaults: it is the one resolved with an empty stored
\* document and an empty secure store.
C18_DisabledIgnoresStored ==
    (op \in ConfigOps /\ env.BBSC_DISABLE_STORED_CONFIG = <<"1">>) =>
        /\ config = LoadFromEnv(env, NoStored, NoKeyring).config
        /\ err = LoadFromEnv(env, NoStored, NoKeyring).err

\* a stored credential supplied the final token or password
StoredSupplied ==
    \/ EnvValue("token") = <<>> /\ StoredValue("token") # <<>>
    \/ EnvValue("password") = <<>> /\ StoredValue("password") # <<>>

\* one of the auth variables is set in the environment
AuthEnvSet ==
    \E v \in {call.env.BITBUCKET_TOKEN, call.env.BITBUCKET_USERNAME, call.env.BITBUCKET_USER,
              call.env.BITBUCKET_PASSWORD, call.env.ADMIN_USER, call.env.ADMIN_PASSWORD} :
        v # <<>>

\* C19: the auth source of a resolved configuration is "stored" if a stored
\* credential supplied the final token or password; otherwise "env" if any
\* auth variable is set in the environment, used or not; otherwise
\* "env/default".
C19_AuthSourceTag ==
    (op \in ConfigOps /\ err = "none") =>
        config.authSource = IF StoredSupplied THEN <<"stored">>
                            ELSE IF AuthEnvSet THEN <<"env">>
                            ELSE <<"env/default">>

\* the secure store gives a value that is not blank for the field at key k
SecureReadable(k, field) ==
    /\ keyringGet(keyring, k, field) # None
    /\ IsSet(keyringGet(keyring, k, field)[1])

\* the fallback record's value for the field at key k
InsecureValue(k, field) ==
    IF k \in DOMAIN stored.insecure THEN stored.insecure[k][field] ELSE <<>>

\* C20: for each secret field (token, password) of a stored profile the
\* resolution returns the secure store's value when one that is not blank can
\* be read, and the insecure fallback record's value only when it cannot:
\* each secret the caller receives is the value of exactly one of the two.
C20_SecureFirst ==
    (op \in ConfigOps /\ resolved # None /\ resolved[1].found) =>
        \A field \in {"token", "password"} :
            resolved[1].config[field] =
                IF SecureReadable(resolved[1].key, field)
                THEN keyringGet(keyring, resolved[1].key, field)[1]
                ELSE InsecureValue(resolved[1].key, field)

\* the secure store holds a blank token and a password, the fallback record
\* a token and a password: the token is the fallback's, the password the
\* secure store's
C20_Witness ==
    /\ op \in ConfigOps
    /\ resolved # None
    /\ resolved[1].found
    /\ resolved[1].key = K1
    /\ keyringGet(keyring, K1, "token") = Some(<<" ">>)
    /\ keyringGet(keyring, K1, "password") = Some(<<"kp">>)
    /\ InsecureValue(K1, "token") = <<"it">>
    /\ InsecureValue(K1, "password") = <<"ip">>
    /\ resolved[1].config.token = <<"it">>
    /\ resolved[1].config.password = <<"kp">>

\* the URL has a scheme and a host
HasSchemeAndHost(u) == Len(u) >= 2 /\ u[1] = "http://" /\ u[2] \in HostParts

\* the three conditions of a well-formed configuration
WellFormed(c) ==
    /\ HasSchemeAndHost(c.url)
    /\ Len(c.projectKey) \in 1..MaxProjectKeyLen
    /\ (c.username = <<>>) <=> (c.password = <<>>)

\* C21: every configuration that resolution returns successfully has a URL
\* with a scheme and a host, a project key of 1 to 20 characters, and a
\* username and password that are both set or both empty; a resolution that
\* would violate one of these returns a validation error and no
\* configuration.
C21_ValidatedConfig ==
    op \in ConfigOps =>
        IF WellFormed(loadConfig(env, stored, keyring))
        THEN err = "none" /\ config = loadConfig(env, stored, keyring) /\ WellFormed(config)
        ELSE err = "validation" /\ config = NoConfig

\* the environment gives a username and no password, nothing stored fills
\* the password in: the resolution is refused
C21_Witness ==
    /\ op \in ConfigOps
    /\ EnvValue("username") = <<"eu">>
    /\ loadConfig(env, stored, keyring).password = <<>>
    /\ err = "validation"
    /\ config = NoConfig
    /\ exit = Some(2)

\* invocation i writes the stored document in this step
Saves(i) == procs[i].pc = "loaded" /\ procs'[i].pc = "exited"

\* the key of the host the command of invocation i is about
TargetKey(i) ==
    IF IsSet(procs[i].input.host) THEN hostKey(procs[i].input.host)
    ELSE procs[i].doc.defaultHost

\* invocation i has logged in to the host of key k
LoggedIn(i, k) ==
    /\ procs[i].pc = "exited"
    /\ procs[i].cmd = "login"
    /\ procs[i].err = "none"
    /\ TargetKey(i) = k

\* C22: two invocations of auth login or auth logout on one config path
\* each read the whole document and later write the whole document without
\* locking: the document an invocation writes holds, for every host but its
\* own, what it read and not what is stored when it writes, so the stored
\* document is the last saver's and the change of an earlier saver (a host
\* it added) can be missing from it.
C22_LastWriterWins ==
    [][\A i \in Invocations :
           Saves(i) =>
               \A k \in {K1, K2} \ {TargetKey(i)} :
                   /\ (k \in DOMAIN stored'.hosts) <=> (k \in DOMAIN procs[i].doc.hosts)
                   /\ k \in DOMAIN stored'.hosts => stored'.hosts[k] = procs[i].doc.hosts[k]]_vars

\* both invocations have logged in, one to h1 and one to h2, and h1 is
\* missing from the stored document
C22_Witness ==
    \E i \in Invocations, j \in Invocations :
        /\ LoggedIn(i, K1)
        /\ LoggedIn(j, K2)
        /\ K1 \notin DOMAIN stored.hosts
        /\ K2 \in DOMAIN stored.hosts

\* C28: after any sequence of successful SaveLogin and Logout calls from an
\* empty stored configuration the default host is empty or a key of the hosts
\* map, and it is empty exactly when the hosts map is empty.
C28_DefaultHostIsAHost ==
    /\ stored.defaultHost = <<>> \/ stored.defaultHost \in DOMAIN stored.hosts
    /\ stored.defaultHost = <<>> <=> DOMAIN stored.hosts = {}

\* the default host h1 was logged out of while h2 was logged in to: h2 is
\* the default host now
C28_Witness ==
    /\ procs[1].pc = "exited"
    /\ procs[1].cmd = "logout"
    /\ procs[1].err = "none"
    /\ procs[1].doc.defaultHost = K1
    /\ DOMAIN procs[1].doc.hosts = {K1, K2}
    /\ TargetKey(1) = K1
    /\ DOMAIN stored.hosts = {K2}
    /\ stored.defaultHost = K2

\* the secret of the given field that resolves for the host of invocation i
\* once it has saved
ResolvesAfter(i, field) ==
    resolveStoredCredentials(stored', keyring', normalizeURL(procs[i].input.host)).config[field]

\* C29: after a successful SaveLogin for a host the secrets that resolve for
\* that host are those of the mode just saved: a basic login leaves no token
\* resolvable and a token login no password, whatever the earlier logins and
\* whichever calls of the secure store fail.
C29_NoSupersededSecret ==
    [][\A i \in Invocations :
           (Saves(i) /\ procs[i].cmd = "login") =>
               IF IsSet(procs[i].input.token)
               THEN ResolvesAfter(i, "password") = <<>>
               ELSE ResolvesAfter(i, "token") = <<>>]_vars

\* C25: in every drain the first page request uses start=0 and each later
\* request uses start equal to the nextPageStart of the response before it,
\* with the same limit on every request of the drain.
C25_CursorFollowsServer ==
    op \in DrainOps =>
        \A i \in 1..Len(reqs) :
            /\ reqs[i].limit = reqs[1].limit
            /\ i = 1 => reqs[i].start = 0
            /\ (i > 1 /\ IsPage(resps[i - 1]) /\ HasNext(resps[i - 1])) =>
                   reqs[i].start = resps[i - 1].payload[1].nextPageStart[1]

\* an Update or a Delete that resolved the version itself has sent its read
\* and its write
ReadThenWrote ==
    /\ op \in VersionedOps
    /\ call.version = None
    /\ Len(reqs) = 2
    /\ Len(resps) = 2

\* the version the read returned
VersionRead == resps[1].payload[1].version[1]

\* C26: auto-resolving the version does not make a write atomic with its
\* read: when another writer changes the comment between the client's GET and
\* its PUT or DELETE, the client sends the version it read, unchanged, and the
\* call ends in a conflict error, the write refused and the other writer's
\* change left as it is.
C26_StaleWriteConflicts ==
    ReadThenWrote =>
        /\ reqs[2].version = IF op = "CommentUpdate" THEN Some(VersionRead)
                             ELSE Some(Itoa(VersionRead))
        /\ server.version # VersionRead =>
               /\ resps[2].status = 409
               /\ err = "conflict"
               /\ pc = "done"
               /\ server.author = "other"

\* the read returned version 0, another writer made it 1, the PUT carried 0
\* and was refused
C26_Witness ==
    /\ ReadThenWrote
    /\ op = "CommentUpdate"
    /\ VersionRead = 0
    /\ server = [version |-> 1, author |-> "other"]
    /\ reqs[2].method = "PUT"
    /\ reqs[2].version = Some(0)
    /\ err = "conflict"
    /\ exit = Some(5)


\* the calls that read: comment Get, the three drains
ReadOps == {"CommentGet", "CommentList", "TagList", "RepoList", "RepoListByProject"}

\* a 2xx whose body is empty, so that no typed payload comes of it
EmptySuccess(a) ==
    a.terr = "none" /\ a.status >= 200 /\ a.status < 300 /\ a.payload = None

\* C23: a 2xx response with an empty body or no typed payload is a success on
\* every read path (comment Get, the drains over the generated client, the
\* repository listing over GetJSON): the call it answers returns no error.
C23_EmptyBodyIsSuccess ==
    \A i \in 1..Len(resps) :
        (op \in ReadOps /\ EmptySuccess(resps[i])) => err = "none"

\* the service call returned an error without having sent anything
RejectedInput == pc = "done" /\ op \notin ExecOps /\ resps = <<>> /\ err # "none"

\* C27: a service operation that rejects its caller's input (an empty project
\* key, an empty repository reference, an empty comment id or text, an invalid
\* target) returns a validation error before any request is sent, and the
\* process exits with code 2.
C27_RejectionIsValidation ==
    RejectedInput =>
        /\ err = "validation"
        /\ reqs = <<>>
        /\ exit # None => exit = Some(2)


\* the file a "diff --git" line is about: the path of its b side, the path
\* of its a side when there is no b side
NamedFile(f) == IF f.b # <<>> THEN f.b ELSE f.a

\* the names of the files, each once, in the order of first occurrence
RECURSIVE FirstSeen(_)
FirstSeen(files) ==
    IF files = <<>> THEN <<>>
    ELSE LET before == FirstSeen(SubSeq(files, 1, Len(files) - 1))
             name == NamedFile(files[Len(files)])
         IN  IF \E i \in 1..(Len(files) - 1) : NamedFile(files[i]) = name
             THEN before
             ELSE Append(before, name)

\* C24: name-only extraction returns one path for each distinct file named by
\* a "diff --git a/<path> b/<path>" line of the raw diff: the b-side path, or
\* the a-side path when the b side is /dev/null, each path once and in the
\* order of its first occurrence.
C24_NamesOfDiff ==
    op = "DiffNameOnly" => results = FirstSeen(call.files)


\* the resolved configuration holds a secret the environment did not give:
\* it was taken from the stored configuration
SecretTaken(field) ==
    /\ ResolvedWithStored
    /\ resolved[1].found
    /\ EnvValue(field) = <<>>
    /\ config[field] # <<>>

\* the claim as the specification words it: a stored secret is only placed
\* in a configuration whose URL has the host key of the profile the secret
\* was stored for
C30_AsClaimed ==
    \A field \in {"token", "password"} :
        SecretTaken(field) => resolved[1].key = hostKey(config.url)

\* C30: a token or password taken from the stored configuration is the
\* secret of the stored profile whose host key is that of the resolved URL
\* when there is such a profile, and the secret of the default host's profile
\* when there is none: the secrets saved for the default host are attached to
\* the requests sent to every host that has no profile of its own, and
\* otherwise no secret reaches a host other than the one it was saved for.
C30_SecretOfProfileOrDefault ==
    \A field \in {"token", "password"} :
        SecretTaken(field) =>
            resolved[1].key = IF hostKey(config.url) \in DOMAIN stored.hosts
                              THEN hostKey(config.url)
                              ELSE stored.defaultHost

\* a request to h1, for which nothing is stored, carries the token saved for
\* h2, the default host
C30_Witness ==
    /\ op = "Command"
    /\ SecretTaken("token")
    /\ hostKey(config.url) = K1
    /\ K1 \notin DOMAIN stored.hosts
    /\ stored.defaultHost = K2
    /\ config.token = <<"kt2">>
    /\ Len(reqs) = 1
    /\ reqs[1].authorization = <<[scheme |-> "Bearer", credentials |-> <<<<"kt2">>>>]>>

=============================================================================
